---- MODULE Spec2Model ----
(***************************************************************************)
(* Verification model of the card-fraud load-testing harness:              *)
(*   - src/utilities/minio_client.py  (Artifact Publisher)                 *)
(*   - src/utilities/harness.py       (Run Coordinator, LoadTestHarness)   *)
(*   - scripts/run_load_test.py       (main: preflight/seed/load/teardown) *)
(*   - src/utilities/metrics.py       (MetricsCollector)                   *)
(*                                                                         *)
(* Object keys are modelled as sequences of path segments: the key         *)
(* "a/b/c.json" is <<"a","b","c.json">>.  Run identifiers are single       *)
(* segments (they contain no "/"), so the string prefix "loadtest/R/" is   *)
(* the segment prefix <<"loadtest", R>> followed by at least one segment.  *)
(* The harness always uses its default bucket, so one bucket is modelled.  *)
(***************************************************************************)
EXTENDS Integers, Sequences, FiniteSets, TLC

VARIABLES
    storage,     \* the bucket: function from the keys present to the stored object
    harness,     \* LoadTestHarness objects: function harness id -> fields
    clock,       \* datetime.now(): a counter that advances at each reading
    last,        \* observation of the most recent harness operation
    prev,        \* observation of the operation before it
    writes,      \* history: the [run_id, key] pairs written by publish_ruleset
    files,       \* run-metadata files: function run id -> the record written
    constructed, \* history: per harness built, the run_id argument and the uuid4 draw
    mpc,         \* main(): the position of the process
    margs,       \* main(): the parsed command-line arguments
    locust_env,  \* the engine's process: os.environ flags, environment.user_classes
    pending,     \* main(): the exception in flight through the finally block
    run_artifacts, \* main(): the run_artifacts dict (its exit_code entry)
    mlog,        \* main(): history of the calls made, in order
    exit_status, \* the exit code of the process once it has ended
    probe_results, \* main(): what each preflight probe made met, in order
    env_stats,   \* the load engine's request statistics (environment.stats)
    run_summaries, \* ReportGenerator.run_summaries: the RunSummary list
    metrics,     \* MetricsCollector._metrics: function name -> MetricSnapshot
    thresholds,  \* MetricsCollector._thresholds: sequence of MetricThreshold
    violations,  \* the list returned by the latest check_thresholds call
    fresh,       \* whether violations comes from the current table and thresholds
    index_error, \* whether the latest check_thresholds call raised IndexError
    ncalls,      \* number of collector calls started so far
    lock,        \* MetricsCollector._lock: 0 when free, else the holder
    tpc,         \* per caller thread: its position in a collector call
    tlocal,      \* per caller thread: the call's arguments and local snapshot
    done,        \* history: per metric name, the calls that have completed
    checker      \* the thread running check_thresholds: position and locals

hvars == <<storage, harness, clock, last, prev, writes, files, constructed>>

mvars == <<mpc, margs, locust_env, pending, run_artifacts, mlog, exit_status,
           probe_results, env_stats, run_summaries>>

rvars == <<env_stats, run_summaries>>

cvars == <<metrics, thresholds, violations, fresh, index_error, ncalls,
           lock, tpc, tlocal, done, checker>>

vars == <<storage, harness, clock, last, prev, writes, files, constructed,
          mpc, margs, locust_env, pending, run_artifacts, mlog, exit_status,
          probe_results, env_stats, run_summaries,
          metrics, thresholds, violations, fresh, index_error, ncalls,
          lock, tpc, tlocal, done, checker>>

-----------------------------------------------------------------------------
(* Bounds *)

MaxClock == 3

MaxOps == 3          \* collector calls in the sequential specification
MaxCalls == 3        \* collector calls in the concurrent specification
MaxSamples == 100    \* samples recorded in the percentile fixture
MaxHarnesses == 3    \* harnesses built in the construction specification
MaxReports == 2      \* reports generated in the report specification

-----------------------------------------------------------------------------
(* Values *)

NoKey == <<>>          \* Python None where a key is expected
NoTime == 0            \* Python None where a datetime is expected

Harnesses == {1, 2}

HarnessRunId(h) == IF h = 1 THEN "lt-aaaa" ELSE "lt-bbbb"

\* Rulesets as generate_ruleset builds them: PREAUTH -> CARD_AUTH,
\* POSTAUTH -> CARD_MONITORING, country "US", environment "local", version 1.
Ruleset(id, rkey) ==
    [ruleset_id |-> id, ruleset_key |-> rkey, country |-> "US",
     version |-> 1, environment |-> "local"]

\* The inputs of seed(): no rulesets, or the two rulesets main() generates.
SeedInputs ==
    { <<>>,
      << Ruleset("rs_1", "CARD_AUTH"), Ruleset("rs_2", "CARD_MONITORING") >> }

\* What the storage endpoint does to one publish_ruleset call: both uploads
\* succeed, the artifact upload raises (the manifest upload is then never
\* attempted), or the manifest upload raises.
PublishOutcomes == {"ok", "artifact_fails", "manifest_fails"}

\* Objects that other tooling left in the bucket before the runs start.
ExternalKeys ==
    { <<"loadtest", "lt-aaaa", "rulesets", "old.json">>,
      <<"loadtest", "lt-bbbb", "scratch.json">> }

ExternalObject ==
    [run_id |-> "external", kind |-> "external", ruleset_id |-> "none",
     body |-> <<>>]

-----------------------------------------------------------------------------
(* Object storage collaborator: put_object / list_objects_v2 / delete_object *)

PutObject(store, key, obj) ==
    [k \in (DOMAIN store) \cup {key} |-> IF k = key THEN obj ELSE store[k]]

DeleteObject(store, key) ==
    [k \in (DOMAIN store) \ {key} |-> store[k]]

HasPrefix(key, prefix) ==
    /\ Len(key) > Len(prefix)
    /\ SubSeq(key, 1, Len(prefix)) = prefix

ListObjects(store, prefix) == {k \in DOMAIN store : HasPrefix(k, prefix)}

-----------------------------------------------------------------------------
(* minio_client.py *)

\* A dict is a sequence of members in insertion order; a member has a key
\* and a value, which is a string, a number written in digits, or a digest.
Member(key, kind, text) == [key |-> key, kind |-> kind, text |-> text]

Get(dict, key) == dict[CHOOSE i \in DOMAIN dict : dict[i].key = key].text

\* json.dumps(data, indent=indent).encode("utf-8"): one line per member,
\* made of the indentation, the key, the quote that encloses the value (none
\* for a number) and the value.
json_dumps(data, indent) ==
    [i \in DOMAIN data |->
        <<indent, data[i].key,
          IF data[i].kind = "int" THEN "" ELSE "\"", data[i].text>>]

\* json.loads, as a reader of the stored object applies it.
json_loads(body) ==
    [i \in DOMAIN body |->
        Member(body[i][2], IF body[i][3] = "" THEN "int" ELSE "str", body[i][4])]

\* hashlib.sha256(bytes).hexdigest(): equal bytes give equal digests and, in
\* this model, different bytes different digests.
sha256(bytes) == <<"digest", bytes>>

\* obj carries the dict to upload (data) and what the model records of the
\* S3 metadata.  fail: the client call raises; the except branch turns it
\* into False.
upload_artifact(store, key, obj, fail) ==
    IF fail
    THEN [ok |-> FALSE, raised |-> FALSE, store |-> store]
    ELSE [ok |-> TRUE, raised |-> FALSE,
          store |-> PutObject(store, key,
                       [run_id |-> obj.run_id, kind |-> obj.kind,
                        ruleset_id |-> obj.ruleset_id,
                        body |-> json_dumps(obj.data, 2)])]

list_artifacts(store, prefix, fail) ==
    IF fail
    THEN [keys |-> {}, raised |-> FALSE]
    ELSE [keys |-> ListObjects(store, prefix), raised |-> FALSE]

\* Mutant: the except branch is missing, the client's exception propagates.
delete_artifact_NoExcept(store, key, fail) ==
    IF fail
    THEN [ok |-> FALSE, raised |-> TRUE, store |-> store]
    ELSE [ok |-> TRUE, raised |-> FALSE, store |-> DeleteObject(store, key)]

delete_artifact(store, key, fail) ==
    IF fail
    THEN [ok |-> FALSE, raised |-> FALSE, store |-> store]
    ELSE [ok |-> TRUE, raised |-> FALSE, store |-> DeleteObject(store, key)]

VersionSegment(v) == IF v = 1 THEN "v1" ELSE "v2"

artifact_key(rs) ==
    <<"rulesets", rs.environment, rs.country, rs.ruleset_key,
      VersionSegment(rs.version), "ruleset.json">>

manifest_key(rs) ==
    <<"rulesets", rs.environment, rs.country, rs.ruleset_key, "manifest.json">>

\* The ruleset dict, members in the order generate_ruleset inserts them.
RulesetDict(rs) ==
    << Member("ruleset_id", "str", rs.ruleset_id),
       Member("ruleset_key", "str", rs.ruleset_key),
       Member("country", "str", rs.country),
       Member("environment", "str", rs.environment),
       Member("version", "int", IF rs.version = 1 THEN "1" ELSE "2") >>

\* Mutant: the checksum is taken over the compact serialization.
ChecksumBytes_Compact(ruleset_data) == json_dumps(ruleset_data, 0)

\* Line 228: the bytes the checksum is computed over.
ChecksumBytes(ruleset_data) == json_dumps(ruleset_data, 2)

\* artifact_uri = s3://{bucket}/{artifact_key}, and the key it names.
ArtifactUri(key) == <<"s3:", "bucket", key>>
KeyOfUri(uri) == uri[3]

\* Lines 235-246: the manifest.
ManifestDict(rs, checksum) ==
    << Member("schema_version", "str", "1.1"),
       Member("environment", "str", rs.environment),
       Member("country", "str", rs.country),
       Member("ruleset_key", "str", rs.ruleset_key),
       Member("ruleset_version", "int", IF rs.version = 1 THEN "1" ELSE "2"),
       Member("artifact_uri", "str", ArtifactUri(artifact_key(rs))),
       Member("checksum", "str", <<"sha256:", checksum>>) >>

\* Mutant: the manifest is uploaded whether or not the artifact was stored.
publish_ruleset_ManifestAnyway(store, rs, run_id, failArtifact, failManifest) ==
    LET checksum == sha256(ChecksumBytes(RulesetDict(rs)))
        up1 == upload_artifact(store, artifact_key(rs),
                   [run_id |-> run_id, kind |-> "ruleset",
                    ruleset_id |-> rs.ruleset_id,
                    data |-> RulesetDict(rs)], failArtifact)
        up2 == upload_artifact(up1.store, manifest_key(rs),
                   [run_id |-> run_id, kind |-> "manifest",
                    ruleset_id |-> rs.ruleset_id,
                    data |-> ManifestDict(rs, checksum)], failManifest)
    IN  [key |-> IF up1.ok THEN artifact_key(rs) ELSE NoKey,
         store |-> up2.store,
         written |-> (IF up1.ok THEN {artifact_key(rs)} ELSE {})
                     \cup (IF up2.ok THEN {manifest_key(rs)} ELSE {})]

publish_ruleset(store, rs, run_id, failArtifact, failManifest) ==
    LET checksum == sha256(ChecksumBytes(RulesetDict(rs)))
        up1 == upload_artifact(store, artifact_key(rs),
                   [run_id |-> run_id, kind |-> "ruleset",
                    ruleset_id |-> rs.ruleset_id,
                    data |-> RulesetDict(rs)], failArtifact)
        up2 == upload_artifact(up1.store, manifest_key(rs),
                   [run_id |-> run_id, kind |-> "manifest",
                    ruleset_id |-> rs.ruleset_id,
                    data |-> ManifestDict(rs, checksum)], failManifest)
    IN  IF ~up1.ok
        THEN [key |-> NoKey, store |-> up1.store, written |-> {}]
        ELSE [key |-> artifact_key(rs), store |-> up2.store,
              written |-> {artifact_key(rs)}
                          \cup (IF up2.ok THEN {manifest_key(rs)} ELSE {})]

\* Mutant: cleanup lists the shared publish tree instead of the run's prefix.
RunPrefix_PublishTree(run_id) == <<"rulesets">>

RunPrefix(run_id) == <<"loadtest", run_id>>

\* delFail: the keys whose delete_object call raises.
RECURSIVE DeleteEach(_, _, _)
DeleteEach(store, keys, delFail) ==
    IF keys = {}
    THEN [store |-> store, deleted |-> {}, raised |-> FALSE]
    ELSE LET k == CHOOSE x \in keys : TRUE
             d == delete_artifact(store, k, k \in delFail)
             rest == DeleteEach(d.store, keys \ {k}, delFail)
         IN  IF d.raised
             THEN [store |-> d.store, deleted |-> {}, raised |-> TRUE]
             ELSE [store |-> rest.store,
                   deleted |-> (IF d.ok THEN {k} ELSE {}) \cup rest.deleted,
                   raised |-> rest.raised]

cleanup_run_artifacts(store, run_id, listFail, delFail) ==
    LET listing == list_artifacts(store, RunPrefix(run_id), listFail)
        loop == DeleteEach(store, listing.keys, delFail)
    IN  [store |-> loop.store,
         listed |-> listing.keys,
         deleted |-> loop.deleted,
         deleted_count |-> Cardinality(loop.deleted),
         raised |-> listing.raised \/ loop.raised]

get_run_artifacts(store, run_id, artifact_type, fail) ==
    list_artifacts(store, RunPrefix(run_id) \o <<artifact_type>>, fail)

-----------------------------------------------------------------------------
(* harness.py: LoadTestHarness *)

\* Mutant: an identifier is generated even when one is supplied.
RunIdOrGenerated_AlwaysGenerates(run_id, hex12) == "lt-" \o hex12

\* run_id or f"lt-{uuid.uuid4().hex[:12]}": None and the empty string (both
\* written "") are falsy; hex12 is what uuid4 gave, cut to 12 hex digits.
RunIdOrGenerated(run_id, hex12) ==
    IF run_id # "" THEN run_id ELSE "lt-" \o hex12

New(run_id, enable_seed, enable_teardown) ==
    [run_id |-> run_id,
     enable_seed |-> enable_seed,
     enable_teardown |-> enable_teardown,
     start_time |-> NoTime,
     end_time |-> NoTime,
     seeded_artifacts |-> <<>>]

\* Mutant: the loop stops at the first failed publish.
RECURSIVE PublishEach_StopAtFailure(_, _, _, _, _)
PublishEach_StopAtFailure(store, run_id, rulesets, outcome, i) ==
    IF i > Len(rulesets)
    THEN [store |-> store, seeded |-> <<>>, results |-> <<>>, written |-> {}]
    ELSE LET p == publish_ruleset(store, rulesets[i], run_id,
                                  outcome[i] = "artifact_fails",
                                  outcome[i] = "manifest_fails")
             rest == PublishEach_StopAtFailure(p.store, run_id, rulesets,
                                               outcome, i + 1)
         IN  IF p.key = NoKey
             THEN [store |-> p.store, seeded |-> <<>>, results |-> <<p.key>>,
                   written |-> {}]
             ELSE [store |-> rest.store, seeded |-> <<p.key>> \o rest.seeded,
                   results |-> <<p.key>> \o rest.results,
                   written |-> p.written \cup rest.written]

\* The publish loop of seed(): outcome[i] is what the storage endpoint does
\* to the uploads of the i-th ruleset.
RECURSIVE PublishEach(_, _, _, _, _)
PublishEach(store, run_id, rulesets, outcome, i) ==
    IF i > Len(rulesets)
    THEN [store |-> store, seeded |-> <<>>, results |-> <<>>, written |-> {}]
    ELSE LET p == publish_ruleset(store, rulesets[i], run_id,
                                  outcome[i] = "artifact_fails",
                                  outcome[i] = "manifest_fails")
             rest == PublishEach(p.store, run_id, rulesets, outcome, i + 1)
         IN  [store |-> rest.store,
              seeded |-> (IF p.key # NoKey THEN <<p.key>> ELSE <<>>) \o rest.seeded,
              results |-> <<p.key>> \o rest.results,
              written |-> p.written \cup rest.written]

\* Mutant: the disabled seed still stamps start_time.
seed_DisabledStampsStart(self, store, now, rulesets, outcome, listFail) ==
    IF ~self.enable_seed
    THEN [self |-> [self EXCEPT !.start_time = now], store |-> store,
          ret |-> TRUE, raised |-> FALSE,
          ran |-> FALSE, listing |-> {}, results |-> <<>>, written |-> {}]
    ELSE LET pub == PublishEach(store, self.run_id, rulesets, outcome, 1)
             artifacts == get_run_artifacts(pub.store, self.run_id, "rulesets", listFail)
         IN  [self |-> [self EXCEPT !.start_time = now,
                                    !.seeded_artifacts = @ \o pub.seeded],
              store |-> pub.store,
              ret |-> TRUE,
              raised |-> artifacts.raised,
              ran |-> TRUE,
              listing |-> artifacts.keys,
              results |-> pub.results,
              written |-> pub.written]

seed(self, store, now, rulesets, outcome, listFail) ==
    IF ~self.enable_seed
    THEN [self |-> self, store |-> store, ret |-> TRUE, raised |-> FALSE,
          ran |-> FALSE, listing |-> {}, results |-> <<>>, written |-> {}]
    ELSE LET pub == PublishEach(store, self.run_id, rulesets, outcome, 1)
             artifacts == get_run_artifacts(pub.store, self.run_id, "rulesets", listFail)
         IN  [self |-> [self EXCEPT !.start_time = now,
                                    !.seeded_artifacts = @ \o pub.seeded],
              store |-> pub.store,
              ret |-> TRUE,
              raised |-> artifacts.raised,
              ran |-> TRUE,
              listing |-> artifacts.keys,
              results |-> pub.results,
              written |-> pub.written]

\* Mutant: the force argument is ignored.
teardown_IgnoresForce(self, store, now, force, listFail, delFail) ==
    IF ~self.enable_teardown
    THEN [self |-> self, store |-> store, ret |-> TRUE, raised |-> FALSE,
          ran |-> FALSE, listed |-> {}, deleted |-> {}, deleted_count |-> 0]
    ELSE LET c == cleanup_run_artifacts(store, self.run_id, listFail, delFail)
         IN  [self |-> [self EXCEPT !.end_time = now],
              store |-> c.store,
              ret |-> ~c.raised,
              raised |-> c.raised,
              ran |-> TRUE,
              listed |-> c.listed,
              deleted |-> c.deleted,
              deleted_count |-> c.deleted_count]

teardown(self, store, now, force, listFail, delFail) ==
    IF ~self.enable_teardown /\ ~force
    THEN [self |-> self, store |-> store, ret |-> TRUE, raised |-> FALSE,
          ran |-> FALSE, listed |-> {}, deleted |-> {}, deleted_count |-> 0]
    ELSE LET c == cleanup_run_artifacts(store, self.run_id, listFail, delFail)
         IN  [self |-> [self EXCEPT !.end_time = now],
              store |-> c.store,
              ret |-> ~c.raised,
              raised |-> c.raised,
              ran |-> TRUE,
              listed |-> c.listed,
              deleted |-> c.deleted,
              deleted_count |-> c.deleted_count]

\* The default of the bucket argument of the constructor.
Bucket == "fraud-gov-artifacts"

\* The fields every run-metadata record has; start_time and end_time are
\* null (NoTime) as long as the harness has not set them.
base_metadata(self) ==
    [run_id |-> self.run_id,
     start_time |-> self.start_time,
     end_time |-> self.end_time,
     bucket |-> Bucket,
     seeded_artifacts |-> self.seeded_artifacts,
     seed_enabled |-> self.enable_seed,
     teardown_enabled |-> self.enable_teardown]

\* Mutant: the record already in the file is read back and updated.
write_run_metadata_UpdatesFile(self, fs, metadata) ==
    LET old == IF self.run_id \in DOMAIN fs THEN fs[self.run_id] ELSE << >>
        base == base_metadata(self)
        merged == [k \in (DOMAIN old) \cup (DOMAIN base) \cup (DOMAIN metadata) |->
                      IF k \in DOMAIN metadata THEN metadata[k]
                      ELSE IF k \in DOMAIN base THEN base[k] ELSE old[k]]
    IN  [f \in (DOMAIN fs) \cup {self.run_id} |->
            IF f = self.run_id THEN merged ELSE fs[f]]

\* The file run-metadata-{run_id}.json is keyed by the run id; the caller's
\* fields are merged over the base fields (dict.update) and the file is
\* opened with mode "w".
write_run_metadata(self, fs, metadata) ==
    LET base == base_metadata(self)
        merged == [k \in (DOMAIN base) \cup (DOMAIN metadata) |->
                      IF k \in DOMAIN metadata THEN metadata[k] ELSE base[k]]
    IN  [f \in (DOMAIN fs) \cup {self.run_id} |->
            IF f = self.run_id THEN merged ELSE fs[f]]

-----------------------------------------------------------------------------
(* Observation records of the harness operations *)

NoOp ==
    [op |-> "none", h |-> 0, force |-> FALSE, ran |-> FALSE, ret |-> TRUE,
     raised |-> FALSE, clean |-> TRUE, listing |-> {}, deleted |-> {},
     deleted_count |-> 0, n |-> 0, results |-> <<>>, written |-> {},
     metadata |-> << >>, outcome |-> <<>>]

NoPrev ==
    [op |-> "none", h |-> 0, ran |-> FALSE, ret |-> TRUE, raised |-> FALSE,
     clean |-> TRUE, metadata |-> << >>]

Brief(o) ==
    [op |-> o.op, h |-> o.h, ran |-> o.ran, ret |-> o.ret, raised |-> o.raised,
     clean |-> o.clean, metadata |-> o.metadata]

AllOk(outcome) == \A i \in DOMAIN outcome : outcome[i] = "ok"


-----------------------------------------------------------------------------
(* metrics.py: MetricSnapshot, MetricThreshold, MetricsCollector *)

Inf == 1000000       \* float("inf"), above every latency of the model

\* Numbers that may be fractions (the error rate) are pairs num/den, den > 0.
Rat(n, d) == [num |-> n, den |-> d]
RatGreater(a, b) == a.num * b.den > b.num * a.den

\* Optional threshold fields: None, or a number.
None == [some |-> FALSE, val |-> Rat(0, 1)]
Some(r) == [some |-> TRUE, val |-> r]

\* Python truth value of an optional number: None and 0 are both false.
Truthy(opt) == opt.some /\ opt.val.num # 0

MetricSnapshot(name) ==
    [name |-> name, count |-> 0, total_time_ms |-> 0, min_time_ms |-> Inf,
     max_time_ms |-> 0, errors |-> 0, response_times |-> <<>>]

MetricThreshold(metric_name, p95_max_ms, p99_max_ms, error_rate_max) ==
    [metric_name |-> metric_name, p95_max_ms |-> p95_max_ms,
     p99_max_ms |-> p99_max_ms, error_rate_max |-> error_rate_max]

Min2(a, b) == IF a < b THEN a ELSE b
Max2(a, b) == IF a > b THEN a ELSE b

\* self._metrics[metric_name] on the defaultdict: the entry, created with
\* name "unknown" when missing.
Lookup(m, metric_name) ==
    IF metric_name \in DOMAIN m THEN m[metric_name] ELSE MetricSnapshot("unknown")

Store(m, metric_name, snapshot) ==
    [k \in (DOMAIN m) \cup {metric_name} |->
        IF k = metric_name THEN snapshot ELSE m[k]]

\* The bodies of the three mutators, applied to the snapshot they read.
ApplyRecordTime(snapshot, metric_name, elapsed_ms, success) ==
    [snapshot EXCEPT
        !.name = metric_name,
        !.count = @ + 1,
        !.total_time_ms = @ + elapsed_ms,
        !.min_time_ms = Min2(@, elapsed_ms),
        !.max_time_ms = Max2(@, elapsed_ms),
        !.response_times = Append(@, elapsed_ms),
        !.errors = IF success THEN @ ELSE @ + 1]

ApplyIncrement(snapshot, metric_name, value) ==
    [snapshot EXCEPT !.name = metric_name, !.count = @ + value]

ApplyRecordError(snapshot, metric_name) ==
    [snapshot EXCEPT !.name = metric_name, !.errors = @ + 1]

\* A whole call, as it runs with the lock held.
record_time(m, metric_name, elapsed_ms, success) ==
    Store(m, metric_name,
          ApplyRecordTime(Lookup(m, metric_name), metric_name, elapsed_ms, success))

increment(m, metric_name, value) ==
    Store(m, metric_name, ApplyIncrement(Lookup(m, metric_name), metric_name, value))

record_error(m, metric_name) ==
    Store(m, metric_name, ApplyRecordError(Lookup(m, metric_name), metric_name))

\* self._metrics.clear(), with the lock held: no entry is left.
reset(m) == << >>

\* dict.get: no entry is created.
HasStats(m, metric_name) == metric_name \in DOMAIN m
get_stats(m, metric_name) == m[metric_name]

\* Mutant: get_stats indexes the defaultdict, which creates a missing entry.
AfterGetStats_Indexing(m, metric_name) ==
    Store(m, metric_name, Lookup(m, metric_name))

\* The table after get_stats: self._metrics.get(metric_name) leaves it alone.
AfterGetStats(m, metric_name) == m

\* sorted(times)[i] for a 0-based index i: the value with at most i
\* elements below it and more than i elements not above it.
SortedAt(times, i) ==
    CHOOSE v \in {times[j] : j \in DOMAIN times} :
        /\ Cardinality({j \in DOMAIN times : times[j] < v}) <= i
        /\ Cardinality({j \in DOMAIN times : times[j] <= v}) > i

\* Mutant: nearest rank counted from 1, index ceil(n * pct / 100) - 1.
PercentileIndex_CeilRank(n, pct) == (n * pct + 99) \div 100 - 1

\* Mutant: the index rounds n * pct / 100 to the nearest integer.
PercentileIndex_Round(n, pct) == (n * pct + 50) \div 100

\* int(n * 0.95), int(n * 0.99): the float product truncates to the same
\* integer as n * pct \div 100 for every n up to 2000.
PercentileIndex(n, pct) == (n * pct) \div 100

Percentile(times, pct) ==
    IF Len(times) > 0
    THEN SortedAt(times, PercentileIndex(Len(times), pct))
    ELSE 0

Violation(metric, kind, limit, actual) ==
    [metric |-> metric, threshold |-> kind, limit |-> limit, actual |-> actual]

\* "threshold.x and actual > threshold.x"
LimitExceeded(limit, actual) ==
    Truthy(limit) /\ RatGreater(actual, limit.val)

\* Mutant: a threshold is skipped unless the metric has latency samples.
SkipThreshold_NoSamples(m, metric_name) ==
    \/ ~HasStats(m, metric_name)
    \/ get_stats(m, metric_name).response_times = <<>>

\* "if not stats or stats.count == 0: continue"
SkipThreshold(m, metric_name) ==
    \/ ~HasStats(m, metric_name)
    \/ get_stats(m, metric_name).count = 0

\* The violations one threshold contributes, in the order p95, p99, error_rate.
CheckOne(m, threshold) ==
    IF SkipThreshold(m, threshold.metric_name)
    THEN <<>>
    ELSE LET stats == get_stats(m, threshold.metric_name)
             p95 == Rat(Percentile(stats.response_times, 95), 1)
             p99 == Rat(Percentile(stats.response_times, 99), 1)
             error_rate == IF stats.count > 0
                           THEN Rat(stats.errors, stats.count)
                           ELSE Rat(0, 1)
         IN  (IF LimitExceeded(threshold.p95_max_ms, p95)
              THEN <<Violation(threshold.metric_name, "p95",
                               threshold.p95_max_ms.val, p95)>>
              ELSE <<>>)
             \o (IF LimitExceeded(threshold.p99_max_ms, p99)
                 THEN <<Violation(threshold.metric_name, "p99",
                                  threshold.p99_max_ms.val, p99)>>
                 ELSE <<>>)
             \o (IF LimitExceeded(threshold.error_rate_max, error_rate)
                 THEN <<Violation(threshold.metric_name, "error_rate",
                                  threshold.error_rate_max.val, error_rate)>>
                 ELSE <<>>)

\* sorted_times[idx] raises IndexError unless -n <= idx < n.
IndexError(times, idx) == idx >= Len(times) \/ idx < 0 - Len(times)

\* Whether the pass over one threshold raises: the metric is not skipped and
\* one of "sorted_times[p95_idx] if n > 0 else 0", "sorted_times[p99_idx] if
\* n > 0 else 0" indexes outside the list.
LookupRaises(m, threshold) ==
    /\ ~SkipThreshold(m, threshold.metric_name)
    /\ LET times == get_stats(m, threshold.metric_name).response_times
           n == Len(times)
       IN  /\ n > 0
           /\ \/ IndexError(times, PercentileIndex(n, 95))
              \/ IndexError(times, PercentileIndex(n, 99))

\* The table after check_thresholds: one get_stats per threshold; sorted()
\* copies the latency list and nothing else touches the table.
RECURSIVE AfterCheck(_, _)
AfterCheck(m, ths) ==
    IF ths = <<>> THEN m
    ELSE AfterCheck(AfterGetStats(m, Head(ths).metric_name), Tail(ths))

\* check_thresholds has no try block: the first lookup that raises ends it.
CheckRaises(m, ths) == \E i \in DOMAIN ths : LookupRaises(m, ths[i])

RECURSIVE check_thresholds(_, _)
check_thresholds(m, ths) ==
    IF ths = <<>> THEN <<>>
    ELSE CheckOne(m, Head(ths)) \o check_thresholds(m, Tail(ths))

-----------------------------------------------------------------------------
(* The load engine's request statistics (environment.stats) and            *)
(* src/utilities/reporting.py                                              *)

\* One statistics entry: the requests and failures logged under a name and
\* the sum of their response times.
StatsEntry(num_requests, num_failures, total_response_time) ==
    [num_requests |-> num_requests, num_failures |-> num_failures,
     total_response_time |-> total_response_time]

\* stats.entries maps a request name to its entry; stats.total aggregates.
NoStats == [entries |-> << >>, total |-> StatsEntry(0, 0, 0)]

\* The engine logs one request: the entry of its name and the total grow.
LogRequest(st, name, response_time, failed) ==
    LET old == IF name \in DOMAIN st.entries THEN st.entries[name]
               ELSE StatsEntry(0, 0, 0)
        Grow(e) == StatsEntry(e.num_requests + 1,
                              e.num_failures + (IF failed THEN 1 ELSE 0),
                              e.total_response_time + response_time)
    IN  [entries |-> [k \in (DOMAIN st.entries) \cup {name} |->
                         IF k = name THEN Grow(old) ELSE st.entries[k]],
         total |-> Grow(st.total)]

\* entry.fail_ratio: failures / requests; without requests it is 1 when
\* failures were logged and 0 otherwise.
fail_ratio(entry) ==
    IF entry.num_requests = 0
    THEN (IF entry.num_failures > 0 THEN Rat(1, 1) ELSE Rat(0, 1))
    ELSE Rat(entry.num_failures, entry.num_requests)

\* entry.avg_response_time: the mean, 0 without requests.
avg_response_time(entry) ==
    IF entry.num_requests = 0
    THEN Rat(0, 1)
    ELSE Rat(entry.total_response_time, entry.num_requests)

\* Lines 60-62: every entry contributes its average once per request.
RECURSIVE ResponseTimes(_)
ResponseTimes(entries) ==
    IF DOMAIN entries = {}
    THEN <<>>
    ELSE LET k == CHOOSE x \in DOMAIN entries : TRUE
             rest == [x \in (DOMAIN entries) \ {k} |-> entries[x]]
         IN  [i \in 1 .. entries[k].num_requests |-> avg_response_time(entries[k])]
                \o ResponseTimes(rest)

\* response_times.sort() followed by response_times[i], 0-based.
RatSortedAt(times, i) ==
    CHOOSE v \in {times[j] : j \in DOMAIN times} :
        /\ Cardinality({j \in DOMAIN times : RatGreater(v, times[j])}) <= i
        /\ Cardinality({j \in DOMAIN times : ~RatGreater(times[j], v)}) > i

\* "response_times[idx] if n > idx else 0"
GuardedAt(times, idx) ==
    IF Len(times) > idx THEN RatSortedAt(times, idx) ELSE Rat(0, 1)

\* sum(response_times) / n
RECURSIVE SumTimes(_)
SumTimes(entries) ==
    IF DOMAIN entries = {}
    THEN 0
    ELSE LET k == CHOOSE x \in DOMAIN entries : TRUE
             rest == [x \in (DOMAIN entries) \ {k} |-> entries[x]]
         IN  entries[k].total_response_time + SumTimes(rest)

\* The pass/fail limit on the failure ratio, 0.01.
FailRatioLimit == Rat(1, 100)

\* Mutant: a ratio equal to the limit still passes.
PassFail_AtMost(ratio) ==
    IF ~RatGreater(ratio, FailRatioLimit) THEN "PASS" ELSE "FAIL"

\* "PASS" if fail_ratio < 0.01 else "FAIL"
PassFail(ratio) ==
    IF RatGreater(FailRatioLimit, ratio) THEN "PASS" ELSE "FAIL"

\* One decimal digit as a character.
Digit(n) == <<"0", "1", "2", "3", "4", "5", "6", "7", "8", "9">>[n + 1]

\* datetime.now().strftime("%Y%m%d-%H%M%S"): the wall clock, to the second;
\* the model's clock counts the seconds of one fixed minute.
strftime(now) ==
    "20260101-1200" \o Digit((now \div 10) % 10) \o Digit(now % 10)

\* RunSummary with its defaults: no requests, verdict "UNKNOWN"; run_id has
\* no default.
RunSummary ==
    [run_id |-> "",
     total_requests |-> 0, total_failures |-> 0,
     avg_response_time_ms |-> Rat(0, 1),
     p95_response_time_ms |-> Rat(0, 1),
     p99_response_time_ms |-> Rat(0, 1),
     pass_fail |-> "UNKNOWN"]

\* The summary generate_final_report builds and appends to run_summaries.
generate_final_report(st, now) ==
    LET response_times == ResponseTimes(st.entries)
        n == Len(response_times)
        p95 == IF n > 0 THEN GuardedAt(response_times, PercentileIndex(n, 95))
                        ELSE Rat(0, 1)
        p99 == IF n > 0 THEN GuardedAt(response_times, PercentileIndex(n, 99))
                        ELSE Rat(0, 1)
        avg == IF n > 0 THEN Rat(SumTimes(st.entries), n) ELSE Rat(0, 1)
    IN  [RunSummary EXCEPT
            !.run_id = strftime(now),
            !.total_requests = st.total.num_requests,
            !.total_failures = st.total.num_failures,
            !.avg_response_time_ms = avg,
            !.p95_response_time_ms = p95,
            !.p99_response_time_ms = p99,
            !.pass_fail = PassFail(fail_ratio(st.total))]

\* The file _write_json_summary and _write_csv_summary open for a summary,
\* without the extension.
SummaryFile(summary) == "run-summary-" \o summary.run_id

-----------------------------------------------------------------------------
(* Values and idle states of the collector *)

Threads == {1, 2}
Names == {"auth", "query"}
Latencies == {5, 7}
IncValues == {1, 2}

NoCall ==
    [op |-> "none", name |-> "auth", elapsed_ms |-> 0, success |-> TRUE,
     value |-> 0, snapshot |-> MetricSnapshot("unknown")]

NoneDone ==
    [name \in Names |->
        [n |-> 0, failed |-> 0, inc |-> 0, err |-> 0, sum |-> 0,
         lat |-> [v \in Latencies |-> 0]]]

\* No thread runs check_thresholds. In a check, stats is the MetricSnapshot
\* object get_stats returned, attached while the table still holds that
\* object; times, errors and count are the values the pass has read from it;
\* history and held record every value an object has held since its creation.
NoCheck ==
    [pc |-> "off", metric_name |-> "", attached |-> FALSE,
     stats |-> MetricSnapshot("unknown"),
     times |-> <<>>, errors |-> 0, count |-> 0,
     history |-> [name \in Names |-> {}], held |-> {}]

CollectorIdle ==
    /\ metrics = << >>
    /\ thresholds = <<>>
    /\ violations = <<>>
    /\ fresh = FALSE
    /\ index_error = FALSE
    /\ ncalls = 0
    /\ lock = 0
    /\ tpc = [t \in Threads |-> "idle"]
    /\ tlocal = [t \in Threads |-> NoCall]
    /\ done = NoneDone
    /\ checker = NoCheck

HarnessIdle ==
    /\ storage = << >>
    /\ harness = [h \in Harnesses |-> New(HarnessRunId(h), TRUE, TRUE)]
    /\ clock = 1
    /\ last = NoOp
    /\ prev = NoPrev
    /\ writes = {}
    /\ files = << >>
    /\ constructed = <<>>

-----------------------------------------------------------------------------
(* scripts/run_load_test.py *)

Services == {"all", "rule-engine", "rule-mgmt", "trans-mgmt"}

\* Of the six scenarios only "seed-only" changes main()'s control flow.
Scenarios == {"baseline", "seed-only"}

_services_for_selection(selection) ==
    IF selection = "all"
    THEN <<"rule-engine", "rule-mgmt", "trans-mgmt">>
    ELSE <<selection>>

\* What one health probe meets: HTTP 200, another status, or httpx raising.
HealthOutcomes == {"200", "503", "connect_error"}

\* Mutant: the loop goes on probing after a failed probe.
RECURSIVE ProbeEach_NoEarlyReturn(_, _, _)
ProbeEach_NoEarlyReturn(services, health, i) ==
    IF i > Len(services)
    THEN [ok |-> TRUE, probed |-> <<>>]
    ELSE LET rest == ProbeEach_NoEarlyReturn(services, health, i + 1)
         IN  [ok |-> rest.ok /\ health[i] = "200",
              probed |-> <<services[i]>> \o rest.probed]

\* health[i] is what the probe of the i-th service meets.  The loop returns
\* at the first probe that is not a 200.
RECURSIVE ProbeEach(_, _, _)
ProbeEach(services, health, i) ==
    IF i > Len(services)
    THEN [ok |-> TRUE, probed |-> <<>>]
    ELSE IF health[i] # "200"
         THEN [ok |-> FALSE, probed |-> <<services[i]>>]
         ELSE LET rest == ProbeEach(services, health, i + 1)
              IN  [ok |-> rest.ok, probed |-> <<services[i]>> \o rest.probed]

_preflight_services(selection, health) ==
    ProbeEach(_services_for_selection(selection), health, 1)

\* Exceptions and exit codes.
NoExc == [type |-> "none", code |-> [t |-> "none", v |-> 0]]
SystemExitOf(c) == [type |-> "SystemExit", code |-> c]
IntCode(n) == [t |-> "int", v |-> n]

\* The ways locust_main() ends: it returns, or raises SystemExit with code
\* None, 0, a non-zero integer or a string, KeyboardInterrupt, or an error.
EngineOutcomes ==
    { [kind |-> "return", exc |-> NoExc],
      [kind |-> "raise", exc |-> SystemExitOf([t |-> "none", v |-> 0])],
      [kind |-> "raise", exc |-> SystemExitOf(IntCode(0))],
      [kind |-> "raise", exc |-> SystemExitOf(IntCode(1))],
      [kind |-> "raise", exc |-> SystemExitOf([t |-> "str", v |-> 0])],
      [kind |-> "raise", exc |-> [type |-> "KeyboardInterrupt", code |-> NoExc.code]],
      [kind |-> "raise", exc |-> [type |-> "Exception", code |-> NoExc.code]] }

\* The user classes the locustfile defines, in the order of definition: the
\* engine's default for environment.user_classes.
UserClasses ==
    <<"RuleEngineUser", "TransactionManagementUser", "RuleManagementUser",
      "OpsAnalystUser">>

\* The TEST_* variable of a class and the default os.getenv falls back to.
FlagOf(class) ==
    IF class = "RuleEngineUser" THEN "TEST_RULE_ENGINE"
    ELSE IF class = "TransactionManagementUser" THEN "TEST_TRANSACTION_MGMT"
    ELSE IF class = "RuleManagementUser" THEN "TEST_RULE_MGMT"
    ELSE "TEST_OPS_ANALYST"

FlagDefault(flag) ==
    IF flag \in {"TEST_RULE_ENGINE", "TEST_TRANSACTION_MGMT"} THEN "true" ELSE "false"

Flags == {FlagOf(UserClasses[i]) : i \in DOMAIN UserClasses}

\* What a variable of os.environ can hold: nothing, or one of these strings.
EnvValues == {"unset", "true", "TRUE", "false", "1"}

\* str.lower on these strings.
Lower(v) == IF v = "TRUE" THEN "true" ELSE v

\* os.getenv(flag, default).lower() == "true"
FlagEnabled(environ, flag) ==
    Lower(IF environ[flag] = "unset" THEN FlagDefault(flag) ELSE environ[flag]) = "true"

\* get_enabled_user_classes: the enabled classes, in the order of the checks.
get_enabled_user_classes(environ) ==
    SelectSeq(UserClasses, LAMBDA c : FlagEnabled(environ, FlagOf(c)))

\* on_locust_init, lines 59-61: "if enabled and hasattr(environment,
\* "user_classes"): environment.user_classes = enabled"; an empty list is
\* falsy and the engine's Environment always has the attribute.
on_locust_init(environ, user_classes) ==
    LET enabled == get_enabled_user_classes(environ)
    IN  IF enabled # <<>> THEN enabled ELSE user_classes

\* The engine's process before any of it has run.
LocustEnv(environ) ==
    [environ |-> environ, user_classes |-> UserClasses,
     initialized |-> FALSE, spawned |-> {}]

LocustIdle == LocustEnv([flag \in Flags |-> "unset"])

\* The failure ratio above which on_quitting asks for exit code 1, 0.01.
QuitRatioLimit == Rat(1, 100)

\* locustfile.on_quitting: environment.process_exit_code, unset or 1.
on_quitting(st) ==
    IF RatGreater(fail_ratio(st.total), QuitRatioLimit)
    THEN IntCode(1)
    ELSE NoExc.code

\* The engine ended through its shutdown, which fires test_stop and quitting.
Shutdown(engine) == engine.kind = "return" \/ engine.exc.type = "SystemExit"

\* A shutdown exits with environment.process_exit_code when a listener set
\* it; otherwise the engine picks the code.
EngineOutcomesFor(process_exit_code) ==
    { e \in EngineOutcomes :
        (Shutdown(e) /\ process_exit_code.t = "int")
            => e.exc = SystemExitOf(process_exit_code) }

\* The statistics a load phase may end with: no request, or 200 requests of
\* which 1, 2 or 3 failed (failure ratios 0.005, 0.01 and 0.015).
LoadStats ==
    { NoStats } \cup
    { [entries |-> [name \in {"auth"} |-> StatsEntry(200, f, 2000)],
       total |-> StatsEntry(200, f, 2000)] : f \in {1, 2, 3} }

\* Mutant: a non-zero exit code of the engine is returned, not re-raised.
_run_locust_ReturnsCode(engine) ==
    IF engine.kind = "return"
    THEN [ret |-> 0, exc |-> NoExc]
    ELSE IF engine.exc.type = "SystemExit"
         THEN [ret |-> IF engine.exc.code.t = "int" THEN engine.exc.code.v ELSE 0,
               exc |-> NoExc]
         ELSE [ret |-> 0, exc |-> engine.exc]

_run_locust(engine) ==
    IF engine.kind = "return"
    THEN [ret |-> 0, exc |-> NoExc]
    ELSE IF engine.exc.type = "SystemExit"
         THEN IF engine.exc.code.t = "int" /\ engine.exc.code.v # 0
              THEN [ret |-> 0, exc |-> engine.exc]
              ELSE [ret |-> 0, exc |-> NoExc]
         ELSE [ret |-> 0, exc |-> engine.exc]

\* Mutant: no try/finally around the phases, SystemExit ends the process.
TryBodyExit_NoFinally(exc) ==
    IF exc.type = "SystemExit"
    THEN [pc |-> "exiting", pending |-> exc]
    ELSE [pc |-> "finally",
          pending |-> IF exc.type = "KeyboardInterrupt" THEN NoExc ELSE exc]

\* How control leaves the try body of main(): KeyboardInterrupt is caught by
\* the except clause; every exit, also with an exception in flight, runs the
\* finally block.
TryBodyExit(exc) ==
    [pc |-> "finally",
     pending |-> IF exc.type = "KeyboardInterrupt" THEN NoExc ELSE exc]

\* Mutant: the teardown is skipped when an exception is in flight.
FinallyTeardown_OnlyOnSuccess(enable_teardown, exc) ==
    enable_teardown /\ exc = NoExc

\* Line 397, inside the finally block: "if harness.enable_teardown", whatever
\* exception is in flight.
FinallyTeardown(enable_teardown, exc) == enable_teardown

\* The exit code of the interpreter when main() ends with exception exc.
ProcessExitCode(exc) ==
    IF exc.type = "none" THEN 0
    ELSE IF exc.type = "SystemExit"
         THEN IF exc.code.t = "int" THEN exc.code.v
              ELSE IF exc.code.t = "none" THEN 0 ELSE 1
         ELSE 1

Event(ev, arg) == [ev |-> ev, arg |-> arg]

MainRulesets ==
    << Ruleset("rs_1", "CARD_AUTH"), Ruleset("rs_2", "CARD_MONITORING") >>

\* Mutant: the run function seeds again while it starts the load.
RunServiceHarnessCalls_Seeds(enable_seed) ==
    IF enable_seed THEN <<Event("seed", "harness")>> ELSE <<>>

\* The harness calls made by run_rule_engine, run_rule_management,
\* run_transaction_management and the "all" branch: with a seeding harness
\* they print a note only, the seeding happened in main() before the call.
RunServiceHarnessCalls(enable_seed) == <<>>

\* main() is not running.
ProcessIdle ==
    /\ mpc = "idle"
    /\ margs = [service |-> "all", scenario |-> "baseline",
                skip_seed |-> FALSE, skip_teardown |-> FALSE]
    /\ pending = NoExc
    /\ run_artifacts = [exit_code |-> -1]
    /\ mlog = <<>>
    /\ exit_status = -1
    /\ probe_results = <<>>

\* No request was logged and no report generated.
ReportIdle ==
    /\ locust_env = LocustIdle
    /\ env_stats = NoStats
    /\ run_summaries = <<>>

MainIdle ==
    /\ ProcessIdle
    /\ ReportIdle

\* main() up to the preflight: arguments parsed, harness 1 constructed and
\* its start_time set.
MainInit ==
    /\ storage = [k \in ExternalKeys |-> ExternalObject]
    /\ \E service \in Services, scenario \in Scenarios,
          skip_seed \in BOOLEAN, skip_teardown \in BOOLEAN :
         /\ margs = [service |-> service, scenario |-> scenario,
                     skip_seed |-> skip_seed, skip_teardown |-> skip_teardown]
         /\ harness = [h \in Harnesses |->
                IF h = 1
                THEN [New(HarnessRunId(h), ~skip_seed, ~skip_teardown)
                         EXCEPT !.start_time = 1]
                ELSE New(HarnessRunId(h), TRUE, TRUE)]
    /\ clock = 2
    /\ last = NoOp
    /\ prev = NoPrev
    /\ writes = {}
    /\ files = << >>
    /\ constructed = <<>>
    /\ mpc = "preflight"
    /\ pending = NoExc
    /\ run_artifacts = [exit_code |-> -1]
    /\ mlog = <<>>
    /\ exit_status = -1
    /\ probe_results = <<>>
    /\ ReportIdle
    /\ CollectorIdle

RECURSIVE ProbeEvents(_)
ProbeEvents(probed) ==
    IF probed = <<>> THEN <<>>
    ELSE <<Event("probe", Head(probed))>> \o ProbeEvents(Tail(probed))

\* Lines 326-329: a failed preflight exits with code 1 before the try block.
MainPreflight ==
    /\ mpc = "preflight"
    /\ \E health \in [1 .. Len(_services_for_selection(margs.service))
                        -> HealthOutcomes] :
         LET r == _preflight_services(margs.service, health)
         IN  /\ probe_results' = [i \in 1 .. Len(r.probed) |-> health[i]]
             /\ mlog' = mlog \o ProbeEvents(r.probed)
                          \o (IF r.ok THEN <<Event("preflight_ok", margs.service)>>
                                      ELSE <<>>)
             /\ IF r.ok
                THEN /\ mpc' = "seed"
                     /\ UNCHANGED <<pending, exit_status>>
                ELSE /\ mpc' = "exited"
                     /\ pending' = SystemExitOf(IntCode(1))
                     /\ exit_status' = 1
    /\ UNCHANGED <<hvars, margs, locust_env, run_artifacts, cvars, rvars>>

\* Lines 333-346: the seed phase.
MainSeed ==
    /\ mpc = "seed"
    /\ IF ~harness[1].enable_seed
       THEN /\ mpc' = "load"
            /\ UNCHANGED <<hvars, pending, mlog>>
       ELSE LET rulesets == IF margs.service \in {"rule-engine", "rule-mgmt", "all"}
                            THEN MainRulesets ELSE <<>>
            IN  \E listFail \in BOOLEAN :
                \E outcome \in [1 .. Len(rulesets) -> PublishOutcomes] :
                  LET r == seed(harness[1], storage, clock, rulesets, outcome, listFail)
                      out == IF r.raised
                             THEN TryBodyExit([type |-> "Exception", code |-> NoExc.code])
                             ELSE IF Len(rulesets) > 0 /\ ~r.ret
                                  THEN TryBodyExit(SystemExitOf(IntCode(1)))
                                  ELSE [pc |-> "load", pending |-> NoExc]
                  IN  /\ harness' = [harness EXCEPT ![1] = r.self]
                      /\ storage' = r.store
                      /\ clock' = clock + 1
                      /\ writes' = writes \cup
                             {[run_id |-> harness[1].run_id, key |-> k] : k \in r.written}
                      /\ mlog' = Append(mlog, Event("seed", "harness"))
                      /\ mpc' = out.pc
                      /\ pending' = out.pending
                      /\ UNCHANGED <<last, prev, files, constructed>>
    /\ UNCHANGED <<margs, locust_env, run_artifacts, exit_status, cvars, probe_results, rvars>>

\* Lines 349-388: the load engine is started unless the scenario is seed-only.
MainLoadStart ==
    /\ mpc = "load"
    /\ IF margs.scenario = "seed-only"
       THEN /\ mpc' = TryBodyExit(NoExc).pc
            /\ pending' = TryBodyExit(NoExc).pending
            /\ UNCHANGED mlog
       ELSE /\ mpc' = "loading"
            /\ mlog' = Append(mlog, Event("load_start", margs.service))
                          \o RunServiceHarnessCalls(harness[1].enable_seed)
            /\ UNCHANGED pending
    /\ UNCHANGED <<hvars, margs, locust_env, run_artifacts, exit_status, cvars, probe_results, rvars>>

\* The load engine ends; _run_locust normalises how.
MainLoadEnd ==
    /\ mpc = "loading"
    /\ \E st \in LoadStats :
       \E engine \in EngineOutcomesFor(on_quitting(st)) :
         LET r == _run_locust(engine)
             out == TryBodyExit(r.exc)
         IN  /\ env_stats' = st
             /\ run_summaries' = IF Shutdown(engine)
                                 THEN Append(run_summaries, generate_final_report(st, clock))
                                 ELSE run_summaries
             /\ mpc' = out.pc
             /\ pending' = out.pending
             /\ run_artifacts' = IF r.exc = NoExc
                                 THEN [exit_code |-> r.ret]
                                 ELSE run_artifacts
             /\ mlog' = Append(mlog, Event("load_end", engine.exc))
    /\ UNCHANGED <<hvars, margs, locust_env, exit_status, cvars, probe_results>>

\* Lines 392-398: the finally block sets end_time and runs the teardown.
MainTeardown ==
    /\ mpc = "finally"
    /\ LET self == IF harness[1].end_time = NoTime
                   THEN [harness[1] EXCEPT !.end_time = clock]
                   ELSE harness[1]
       IN  IF ~FinallyTeardown(self.enable_teardown, pending)
           THEN /\ harness' = [harness EXCEPT ![1] = self]
                /\ clock' = clock + 1
                /\ mpc' = "metadata"
                /\ UNCHANGED <<storage, pending, mlog>>
           ELSE \E listFail \in BOOLEAN :
                \E delFail \in SUBSET ListObjects(storage, RunPrefix(self.run_id)) :
                  LET r == teardown(self, storage, clock + 1, FALSE, listFail, delFail)
                  IN  /\ harness' = [harness EXCEPT ![1] = r.self]
                      /\ storage' = r.store
                      /\ clock' = clock + 2
                      /\ mlog' = Append(mlog, Event("teardown", "harness"))
                      /\ IF r.raised
                         THEN /\ mpc' = "exiting"
                              /\ pending' = [type |-> "Exception", code |-> NoExc.code]
                         ELSE /\ mpc' = "metadata"
                              /\ UNCHANGED pending
    /\ UNCHANGED <<last, prev, writes, files, constructed, margs, locust_env, run_artifacts, exit_status,
                   cvars, probe_results, rvars>>

\* Lines 399-441: the metadata record is built and written.
MainMetadata ==
    /\ mpc = "metadata"
    /\ files' = write_run_metadata(harness[1], files,
                    [service |-> margs.service, scenario |-> margs.scenario,
                     artifacts |-> run_artifacts])
    /\ mlog' = Append(mlog, Event("write_run_metadata", harness[1].run_id))
    /\ mpc' = "exiting"
    /\ UNCHANGED <<storage, harness, clock, last, prev, writes, constructed,
                   margs, locust_env, pending, run_artifacts, exit_status, cvars, probe_results, rvars>>

\* main() returns or the exception in flight ends the process.
MainExit ==
    /\ mpc = "exiting"
    /\ mpc' = "exited"
    /\ exit_status' = ProcessExitCode(pending)
    /\ UNCHANGED <<hvars, margs, locust_env, pending, run_artifacts, mlog, cvars, probe_results, rvars>>

MainNext ==
    \/ MainPreflight
    \/ MainSeed
    \/ MainLoadStart
    \/ MainLoadEnd
    \/ MainTeardown
    \/ MainMetadata
    \/ MainExit

SpecMain == MainInit /\ [][MainNext]_vars

-----------------------------------------------------------------------------
(* The report specification: the engine's statistics are drawn from a      *)
(* bounded set and generate_final_report is applied to them (test_stop).   *)

\* Entries under one name: n requests of which f failed, response time rt each.
EntryChoices(counts, failures, rt) ==
    UNION { { StatsEntry(n, f, n * rt) : f \in {x \in failures : x <= n} } :
                n \in counts }

\* The statistics of a run: an entry exists for a name once a request was
\* logged under it, and the total aggregates the entries.
ReportStats ==
    { [entries |-> [name \in {k \in {"auth", "query"} :
                               (IF k = "auth" THEN a ELSE q).num_requests > 0}
                       |-> IF name = "auth" THEN a ELSE q],
       total |-> StatsEntry(a.num_requests + q.num_requests,
                            a.num_failures + q.num_failures,
                            a.total_response_time + q.total_response_time)] :
        a \in EntryChoices({0, 1, 2, 10, 100, 1000}, {0, 1, 5, 10, 15}, 10),
        q \in EntryChoices({0, 20}, {0, 1}, 30) \cup EntryChoices({20}, {0, 1}, 5) }

ReportInit ==
    /\ HarnessIdle
    /\ ProcessIdle
    /\ CollectorIdle
    /\ locust_env = LocustIdle
    /\ env_stats \in ReportStats
    /\ run_summaries = <<>>

\* locustfile.on_test_stop
OnTestStop ==
    /\ Len(run_summaries) < MaxReports
    /\ run_summaries' = Append(run_summaries, generate_final_report(env_stats, clock))
    /\ UNCHANGED <<hvars, cvars, mpc, margs, locust_env, pending, run_artifacts, mlog,
                   exit_status, probe_results, env_stats>>

ReportNext == OnTestStop

SpecReport == ReportInit /\ [][ReportNext]_vars

-----------------------------------------------------------------------------
(* The user-class specification: the engine's process starts with some     *)
(* setting of the TEST_* variables, fires the init event and then spawns    *)
(* users of the classes in environment.user_classes.                        *)

LocustInit ==
    /\ HarnessIdle
    /\ ProcessIdle
    /\ CollectorIdle
    /\ env_stats = NoStats
    /\ run_summaries = <<>>
    /\ \E environ \in [Flags -> EnvValues] : locust_env = LocustEnv(environ)

\* events.init fires once, before the runner spawns.
OnLocustInit ==
    /\ ~locust_env.initialized
    /\ locust_env' = [locust_env EXCEPT
                         !.user_classes = on_locust_init(locust_env.environ, @),
                         !.initialized = TRUE]
    /\ UNCHANGED <<hvars, cvars, mpc, margs, pending, run_artifacts, mlog,
                   exit_status, probe_results, rvars>>

\* The runner spawns a user of one of environment.user_classes.
SpawnUser ==
    /\ locust_env.initialized
    /\ \E i \in DOMAIN locust_env.user_classes :
          locust_env' = [locust_env EXCEPT
                            !.spawned = @ \cup {locust_env.user_classes[i]}]
    /\ UNCHANGED <<hvars, cvars, mpc, margs, pending, run_artifacts, mlog,
                   exit_status, probe_results, rvars>>

LocustNext ==
    \/ OnLocustInit
    \/ SpawnUser

SpecLocust == LocustInit /\ [][LocustNext]_vars

-----------------------------------------------------------------------------
(* The collector, called sequentially: record_time / increment /           *)
(* record_error on one metric name, one registered threshold, and          *)
(* check_thresholds.                                                       *)

\* The thresholds registered in the sequential specification: on the
\* observed metric or on one never observed, each limit None, 0 or positive.
ThresholdChoices ==
    { MetricThreshold(name, p95, p99, er) :
        name \in Names,
        p95 \in {None, Some(Rat(0, 1)), Some(Rat(5, 1))},
        p99 \in {None, Some(Rat(5, 1))},
        er \in {None, Some(Rat(0, 1)), Some(Rat(1, 2))} }

MetricsInit ==
    /\ HarnessIdle
    /\ MainIdle
    /\ CollectorIdle

AddThreshold ==
    /\ thresholds = <<>>
    /\ \E th \in ThresholdChoices : thresholds' = Append(thresholds, th)
    /\ fresh' = FALSE
    /\ index_error' = FALSE
    /\ UNCHANGED <<metrics, violations, ncalls, lock, tpc, tlocal, done, checker,
                   hvars, mvars>>

RecordTime ==
    /\ ncalls < MaxOps
    /\ \E elapsed_ms \in Latencies, success \in BOOLEAN :
           metrics' = record_time(metrics, "auth", elapsed_ms, success)
    /\ ncalls' = ncalls + 1
    /\ fresh' = FALSE
    /\ index_error' = FALSE
    /\ UNCHANGED <<thresholds, violations, lock, tpc, tlocal, done, checker, hvars, mvars>>

Increment ==
    /\ ncalls < MaxOps
    /\ \E value \in IncValues : metrics' = increment(metrics, "auth", value)
    /\ ncalls' = ncalls + 1
    /\ fresh' = FALSE
    /\ index_error' = FALSE
    /\ UNCHANGED <<thresholds, violations, lock, tpc, tlocal, done, checker, hvars, mvars>>

RecordError ==
    /\ ncalls < MaxOps
    /\ metrics' = record_error(metrics, "auth")
    /\ ncalls' = ncalls + 1
    /\ fresh' = FALSE
    /\ index_error' = FALSE
    /\ UNCHANGED <<thresholds, violations, lock, tpc, tlocal, done, checker, hvars, mvars>>

Reset ==
    /\ ncalls < MaxOps
    /\ metrics' = reset(metrics)
    /\ ncalls' = ncalls + 1
    /\ fresh' = FALSE
    /\ index_error' = FALSE
    /\ UNCHANGED <<thresholds, violations, lock, tpc, tlocal, done, checker, hvars, mvars>>

CheckThresholds ==
    /\ IF CheckRaises(metrics, thresholds)
       THEN /\ index_error' = TRUE
            /\ fresh' = FALSE
            /\ UNCHANGED violations
       ELSE /\ violations' = check_thresholds(metrics, thresholds)
            /\ fresh' = TRUE
            /\ index_error' = FALSE
    /\ metrics' = AfterCheck(metrics, thresholds)
    /\ UNCHANGED <<thresholds, ncalls, lock, tpc, tlocal, done, checker,
                   hvars, mvars>>

MetricsNext ==
    \/ AddThreshold
    \/ RecordTime
    \/ Increment
    \/ RecordError
    \/ Reset
    \/ CheckThresholds

SpecMetrics == MetricsInit /\ [][MetricsNext]_vars

-----------------------------------------------------------------------------
(* The percentile fixture: the latencies 1, 2, 3, ... are recorded on one  *)
(* metric in ascending order, or MaxSamples, MaxSamples - 1, ... in        *)
(* descending order, and check_thresholds is called in between; the engine *)
(* logs the same requests and test_stop generates the final report.        *)

FixtureThresholds ==
    { MetricThreshold("auth", Some(Rat(p95, 1)), Some(Rat(98, 1)), None) :
        p95 \in {94, 95, 96} }

FixtureInit ==
    /\ HarnessIdle
    /\ MainIdle
    /\ metrics = << >>
    /\ \E th \in FixtureThresholds : thresholds = <<th>>
    /\ violations = <<>>
    /\ fresh = FALSE
    /\ index_error = FALSE
    /\ ncalls = 0
    /\ lock = 0
    /\ tpc = [t \in Threads |-> "idle"]
    /\ tlocal = [t \in Threads |-> NoCall]
    /\ done = NoneDone
    /\ checker = NoCheck

NextFixtureValues(times) ==
    IF times = <<>> THEN {1, MaxSamples}
    ELSE IF times[1] = 1 THEN {Len(times) + 1}
         ELSE {MaxSamples - Len(times)}

\* One request: the user's timer records its latency in the collector and
\* the engine logs it in its statistics; requests end when the test stops.
FixtureRecord ==
    /\ ncalls < MaxSamples
    /\ run_summaries = <<>>
    /\ \E v \in NextFixtureValues(Lookup(metrics, "auth").response_times) :
           /\ metrics' = record_time(metrics, "auth", v, TRUE)
           /\ env_stats' = LogRequest(env_stats, "auth", v, FALSE)
    /\ ncalls' = ncalls + 1
    /\ fresh' = FALSE
    /\ index_error' = FALSE
    /\ UNCHANGED <<thresholds, violations, lock, tpc, tlocal, done, checker, hvars,
                   mpc, margs, locust_env, pending, run_artifacts, mlog, exit_status,
                   probe_results, run_summaries>>

FixtureNext ==
    \/ FixtureRecord
    \/ CheckThresholds
    \/ OnTestStop

SpecFixture == FixtureInit /\ [][FixtureNext]_vars

-----------------------------------------------------------------------------
(* The collector, called concurrently: each thread runs record_time,       *)
(* increment and record_error calls; a call waits for the lock, reads the  *)
(* snapshot of its metric (creating it when missing), writes the updated   *)
(* fields back and releases the lock.                                      *)

Calls ==
    { [NoCall EXCEPT !.op = "record_time", !.name = name,
                     !.elapsed_ms = e, !.success = ok] :
          name \in Names, e \in Latencies, ok \in BOOLEAN }
    \cup { [NoCall EXCEPT !.op = "increment", !.name = name, !.value = v] :
          name \in Names, v \in IncValues }
    \cup { [NoCall EXCEPT !.op = "record_error", !.name = name] : name \in Names }

\* Mutant: the mutators do not take the lock.
CanAcquire_NoLock(l) == TRUE

\* "with self._lock:" blocks while another thread holds the lock.
CanAcquire(l) == l = 0

ApplyCall(call) ==
    IF call.op = "record_time"
    THEN ApplyRecordTime(call.snapshot, call.name, call.elapsed_ms, call.success)
    ELSE IF call.op = "increment"
         THEN ApplyIncrement(call.snapshot, call.name, call.value)
         ELSE ApplyRecordError(call.snapshot, call.name)

\* The history entry of a metric after one more completed call.
Completed(d, call) ==
    IF call.op = "record_time"
    THEN [d EXCEPT !.n = @ + 1,
                   !.failed = IF call.success THEN @ ELSE @ + 1,
                   !.sum = @ + call.elapsed_ms,
                   !.lat = [@ EXCEPT ![call.elapsed_ms] = @ + 1]]
    ELSE IF call.op = "increment"
         THEN [d EXCEPT !.inc = @ + call.value]
         ELSE [d EXCEPT !.err = @ + 1]

\* A mutator holding the lock leaves the object of metric_name with the
\* value snapshot: the checking thread, which holds a reference to the
\* object and not a copy, sees the new value in its next read.
Observe(chk, metric_name, snapshot) ==
    IF chk.pc = "off" THEN chk
    ELSE LET same == chk.attached /\ chk.metric_name = metric_name
         IN  [chk EXCEPT !.history[metric_name] = @ \cup {snapshot},
                         !.stats = IF same THEN snapshot ELSE @,
                         !.held = IF same THEN @ \cup {snapshot} ELSE @]

Call(t) ==
    /\ tpc[t] = "idle"
    /\ ncalls < MaxCalls
    /\ \E call \in Calls : tlocal' = [tlocal EXCEPT ![t] = call]
    /\ tpc' = [tpc EXCEPT ![t] = "waiting"]
    /\ ncalls' = ncalls + 1
    /\ UNCHANGED <<metrics, thresholds, violations, fresh, index_error, lock, done, checker, hvars, mvars>>

Acquire(t) ==
    /\ tpc[t] = "waiting"
    /\ CanAcquire(lock)
    /\ lock' = t
    /\ tpc' = [tpc EXCEPT ![t] = "locked"]
    /\ UNCHANGED <<metrics, thresholds, violations, fresh, index_error, ncalls, tlocal, done, checker,
                   hvars, mvars>>

Read(t) ==
    /\ tpc[t] = "locked"
    /\ metrics' = Store(metrics, tlocal[t].name, Lookup(metrics, tlocal[t].name))
    /\ tlocal' = [tlocal EXCEPT ![t].snapshot = Lookup(metrics, tlocal[t].name)]
    /\ tpc' = [tpc EXCEPT ![t] = "loaded"]
    /\ checker' = Observe(checker, tlocal[t].name, Lookup(metrics, tlocal[t].name))
    /\ UNCHANGED <<thresholds, violations, fresh, index_error, ncalls, lock, done, hvars, mvars>>

WriteRelease(t) ==
    /\ tpc[t] = "loaded"
    /\ metrics' = Store(metrics, tlocal[t].name, ApplyCall(tlocal[t]))
    /\ done' = [done EXCEPT ![tlocal[t].name] = Completed(@, tlocal[t])]
    /\ checker' = Observe(checker, tlocal[t].name, ApplyCall(tlocal[t]))
    /\ lock' = 0
    /\ tpc' = [tpc EXCEPT ![t] = "idle"]
    /\ tlocal' = [tlocal EXCEPT ![t] = NoCall]
    /\ fresh' = FALSE
    /\ index_error' = FALSE
    /\ UNCHANGED <<thresholds, violations, ncalls, hvars, mvars>>

ConcNext ==
    \/ \E t \in Threads : Call(t)
    \/ \E t \in Threads : Acquire(t)
    \/ \E t \in Threads : Read(t)
    \/ \E t \in Threads : WriteRelease(t)

SpecConc == MetricsInit /\ [][ConcNext]_vars

-----------------------------------------------------------------------------
(* check_thresholds called while another thread runs the mutators and      *)
(* reset: get_stats takes the lock only to fetch the MetricSnapshot object *)
(* and returns the object itself; the pass then reads its count, its       *)
(* latency list, its errors and its count again without the lock. One      *)
(* threshold with every limit set is registered on "auth".                 *)

RaceThreshold ==
    MetricThreshold("auth", Some(Rat(5, 1)), Some(Rat(5, 1)), Some(Rat(1, 2)))

RaceInit ==
    /\ HarnessIdle
    /\ MainIdle
    /\ metrics = << >>
    /\ thresholds = <<RaceThreshold>>
    /\ violations = <<>>
    /\ fresh = FALSE
    /\ index_error = FALSE
    /\ ncalls = 0
    /\ lock = 0
    /\ tpc = [t \in Threads |-> "idle"]
    /\ tlocal = [t \in Threads |-> NoCall]
    /\ done = NoneDone
    /\ checker = [NoCheck EXCEPT !.pc = "idle"]

\* The violations of one pass, from the values it has read.
PassViolations(threshold, times, errors, count) ==
    LET p95 == Rat(Percentile(times, 95), 1)
        p99 == Rat(Percentile(times, 99), 1)
        error_rate == IF count > 0 THEN Rat(errors, count) ELSE Rat(0, 1)
    IN  (IF LimitExceeded(threshold.p95_max_ms, p95)
         THEN <<Violation(threshold.metric_name, "p95",
                          threshold.p95_max_ms.val, p95)>>
         ELSE <<>>)
        \o (IF LimitExceeded(threshold.p99_max_ms, p99)
            THEN <<Violation(threshold.metric_name, "p99",
                             threshold.p99_max_ms.val, p99)>>
            ELSE <<>>)
        \o (IF LimitExceeded(threshold.error_rate_max, error_rate)
            THEN <<Violation(threshold.metric_name, "error_rate",
                             threshold.error_rate_max.val, error_rate)>>
            ELSE <<>>)

\* "stats = self.get_stats(threshold.metric_name)": the lock is taken and
\* released around the dict lookup; "if not stats: continue" ends the call
\* with no violation when the metric has no entry.
CheckGetStats ==
    /\ checker.pc \in {"idle", "returned"}
    /\ CanAcquire(lock)
    /\ LET metric_name == thresholds[1].metric_name
       IN  IF HasStats(metrics, metric_name)
           THEN /\ checker' = [checker EXCEPT
                                  !.pc = "got",
                                  !.metric_name = metric_name,
                                  !.attached = TRUE,
                                  !.stats = get_stats(metrics, metric_name),
                                  !.times = <<>>, !.errors = 0, !.count = 0,
                                  !.held = checker.history[metric_name]]
                /\ UNCHANGED violations
           ELSE /\ checker' = [checker EXCEPT !.pc = "idle"]
                /\ violations' = <<>>
    /\ UNCHANGED <<metrics, thresholds, fresh, index_error, ncalls, lock, tpc,
                   tlocal, done, hvars, mvars>>

\* "stats.count == 0: continue"
CheckTestCount ==
    /\ checker.pc = "got"
    /\ IF checker.stats.count = 0
       THEN /\ checker' = [checker EXCEPT !.pc = "idle"]
            /\ violations' = <<>>
       ELSE /\ checker' = [checker EXCEPT !.pc = "counted"]
            /\ UNCHANGED violations
    /\ UNCHANGED <<metrics, thresholds, fresh, index_error, ncalls, lock, tpc,
                   tlocal, done, hvars, mvars>>

\* "sorted_times = sorted(stats.response_times)": the list is copied as it is
\* now; p95 and p99 are computed from the copy.
CheckReadTimes ==
    /\ checker.pc = "counted"
    /\ checker' = [checker EXCEPT !.pc = "sorted",
                                  !.times = checker.stats.response_times]
    /\ UNCHANGED <<metrics, thresholds, violations, fresh, index_error, ncalls,
                   lock, tpc, tlocal, done, hvars, mvars>>

\* "stats.errors / stats.count if stats.count > 0 else 0": the numerator is
\* read first.
CheckReadErrors ==
    /\ checker.pc = "sorted"
    /\ checker.stats.count > 0
    /\ checker' = [checker EXCEPT !.pc = "errors_read",
                                  !.errors = checker.stats.errors]
    /\ UNCHANGED <<metrics, thresholds, violations, fresh, index_error, ncalls,
                   lock, tpc, tlocal, done, hvars, mvars>>

\* The denominator is read, the limits are compared and the call returns.
CheckReadCount ==
    /\ checker.pc = "errors_read"
    /\ checker' = [checker EXCEPT !.pc = "returned",
                                  !.count = checker.stats.count]
    /\ violations' = PassViolations(thresholds[1], checker.times,
                                    checker.errors, checker.stats.count)
    /\ UNCHANGED <<metrics, thresholds, fresh, index_error, ncalls, lock, tpc,
                   tlocal, done, hvars, mvars>>

\* reset, called by the mutating thread's side: the table is emptied with
\* the lock held; an object a check already holds is no longer in the table.
ResetCall ==
    /\ ncalls < MaxCalls
    /\ CanAcquire(lock)
    /\ metrics' = reset(metrics)
    /\ done' = NoneDone
    /\ checker' = [checker EXCEPT !.attached = FALSE,
                                  !.history = [name \in Names |-> {}]]
    /\ ncalls' = ncalls + 1
    /\ fresh' = FALSE
    /\ index_error' = FALSE
    /\ UNCHANGED <<thresholds, violations, lock, tpc, tlocal, hvars, mvars>>

RaceNext ==
    \/ Call(1)
    \/ Acquire(1)
    \/ Read(1)
    \/ WriteRelease(1)
    \/ ResetCall
    \/ CheckGetStats
    \/ CheckTestCount
    \/ CheckReadTimes
    \/ CheckReadErrors
    \/ CheckReadCount

SpecRace == RaceInit /\ [][RaceNext]_vars

-----------------------------------------------------------------------------
(* The harness specification: two harnesses with different run ids share   *)
(* the bucket; each operation is one call of a LoadTestHarness method.     *)

Init ==
    /\ storage = [k \in ExternalKeys |-> ExternalObject]
    /\ \E es \in BOOLEAN, et \in BOOLEAN :
           harness = [h \in Harnesses |->
                         IF h = 1 THEN New(HarnessRunId(h), es, et)
                                  ELSE New(HarnessRunId(h), TRUE, TRUE)]
    /\ clock = 1
    /\ last = NoOp
    /\ prev = NoPrev
    /\ writes = {}
    /\ files = << >>
    /\ constructed = <<>>
    /\ MainIdle
    /\ CollectorIdle

Seed(h) ==
    /\ clock < MaxClock
    /\ \E rulesets \in SeedInputs, listFail \in BOOLEAN :
         \E outcome \in [1 .. Len(rulesets) -> PublishOutcomes] :
           \E r \in {seed(harness[h], storage, clock, rulesets, outcome, listFail)} :
               /\ harness' = [harness EXCEPT ![h] = r.self]
               /\ storage' = r.store
               /\ clock' = IF r.ran THEN clock + 1 ELSE clock
               /\ UNCHANGED <<files, constructed, mvars, cvars>>
               /\ writes' = writes \cup
                      {[run_id |-> harness[h].run_id, key |-> k] : k \in r.written}
               /\ prev' = Brief(last)
               /\ last' = [NoOp EXCEPT !.op = "seed", !.h = h, !.ran = r.ran,
                               !.ret = r.ret, !.raised = r.raised,
                               !.clean = AllOk(outcome) /\ ~listFail,
                               !.listing = r.listing, !.n = Len(rulesets),
                               !.results = r.results,
                               !.written = r.written,
                               !.outcome = IF r.ran THEN outcome ELSE <<>>]

Teardown(h) ==
    /\ clock < MaxClock
    /\ \E force \in BOOLEAN, listFail \in BOOLEAN :
         \E delFail \in SUBSET ListObjects(storage, RunPrefix(harness[h].run_id)) :
           \E r \in {teardown(harness[h], storage, clock, force, listFail, delFail)} :
               /\ harness' = [harness EXCEPT ![h] = r.self]
               /\ storage' = r.store
               /\ clock' = IF r.ran THEN clock + 1 ELSE clock
               /\ writes' = writes
               /\ UNCHANGED <<files, constructed, mvars, cvars>>
               /\ prev' = Brief(last)
               /\ last' = [NoOp EXCEPT !.op = "teardown", !.h = h, !.force = force,
                               !.ran = r.ran, !.ret = r.ret, !.raised = r.raised,
                               !.clean = ~(listFail \/ delFail # {}),
                               !.listing = r.listed, !.deleted = r.deleted,
                               !.deleted_count = r.deleted_count]

Next ==
    \/ \E h \in Harnesses : Seed(h)
    \/ \E h \in Harnesses : Teardown(h)

Spec == Init /\ [][Next]_vars

-----------------------------------------------------------------------------
(* The run-metadata specification: harness 1 is in a state that a seed, a  *)
(* teardown, both or neither have left it in, harness 2 is new, and        *)
(* write_run_metadata is called on either, any number of times.            *)

\* The extension fields a caller passes: none, or some of main()'s.
MetadataChoices ==
    { << >>,
      [service |-> "rule-engine"],
      [scenario |-> "baseline"],
      [service |-> "all", artifacts |-> [exit_code |-> 1]] }

\* seed() of the two rulesets, without a storage failure, from the state x.
AfterSeed(x) ==
    LET r == seed(x.self, x.store, x.now, MainRulesets,
                  [i \in 1 .. Len(MainRulesets) |-> "ok"], FALSE)
    IN  [self |-> r.self, store |-> r.store,
         now |-> IF r.ran THEN x.now + 1 ELSE x.now]

\* teardown(), without a storage failure, from the state x.
AfterTeardown(x) ==
    LET r == teardown(x.self, x.store, x.now, FALSE, FALSE, {})
    IN  [self |-> r.self, store |-> r.store,
         now |-> IF r.ran THEN x.now + 1 ELSE x.now]

MetaStarts ==
    LET fresh_states ==
            { [self |-> New(HarnessRunId(1), es, et),
               store |-> [k \in ExternalKeys |-> ExternalObject],
               now |-> 1] : es \in BOOLEAN, et \in BOOLEAN }
        seeded == fresh_states \cup {AfterSeed(x) : x \in fresh_states}
    IN  seeded \cup {AfterTeardown(x) : x \in seeded}

MetaInit ==
    /\ \E x \in MetaStarts :
          /\ storage = x.store
          /\ harness = [h \in Harnesses |->
                           IF h = 1 THEN x.self
                                    ELSE New(HarnessRunId(h), TRUE, TRUE)]
          /\ clock = x.now
    /\ last = NoOp
    /\ prev = NoPrev
    /\ writes = {}
    /\ files = << >>
    /\ constructed = <<>>
    /\ MainIdle
    /\ CollectorIdle

WriteRunMetadata(h) ==
    /\ \E metadata \in MetadataChoices :
          /\ files' = write_run_metadata(harness[h], files, metadata)
          /\ last' = [NoOp EXCEPT !.op = "write_run_metadata", !.h = h,
                                  !.ran = TRUE, !.metadata = metadata]
    /\ prev' = Brief(last)
    /\ UNCHANGED <<storage, harness, clock, writes, constructed, mvars, cvars>>

MetaNext == \E h \in Harnesses : WriteRunMetadata(h)

SpecMeta == MetaInit /\ [][MetaNext]_vars

-----------------------------------------------------------------------------
(* The construction specification: harnesses are constructed one after the *)
(* other, with or without a run id, and then seeded and torn down.         *)

\* The run_id argument: absent (None or ""), or a caller's identifier.
RunIdArgs == {"", "nightly-7"}

\* What uuid.uuid4().hex[:12] can give: uuid4 is a random draw, and two
\* draws are not bound to differ.
Hex12Choices == {"0123456789ab", "c0ffee15900d"}

Construct ==
    /\ Len(harness) < MaxHarnesses
    /\ \E run_id \in RunIdArgs, hex12 \in Hex12Choices :
          /\ harness' = Append(harness,
                            New(RunIdOrGenerated(run_id, hex12), TRUE, TRUE))
          /\ constructed' = Append(constructed,
                                [run_id |-> run_id,
                                 hex12 |-> IF run_id # "" THEN "" ELSE hex12])
    /\ UNCHANGED <<storage, clock, last, prev, writes, files, mvars, cvars>>

\* seed() of the two rulesets or teardown() on a constructed harness.
Operate(i) ==
    /\ clock < MaxClock
    /\ \E x \in {[self |-> harness[i], store |-> storage, now |-> clock]} :
         \E y \in {AfterSeed(x), AfterTeardown(x)} :
            /\ harness' = [harness EXCEPT ![i] = y.self]
            /\ storage' = y.store
            /\ clock' = y.now
    /\ UNCHANGED <<last, prev, writes, files, constructed, mvars, cvars>>

NewInit ==
    /\ storage = [k \in ExternalKeys |-> ExternalObject]
    /\ harness = <<>>
    /\ clock = 1
    /\ last = NoOp
    /\ prev = NoPrev
    /\ writes = {}
    /\ files = << >>
    /\ constructed = <<>>
    /\ MainIdle
    /\ CollectorIdle

NewNext ==
    \/ Construct
    \/ \E i \in DOMAIN harness : Operate(i)

SpecNew == NewInit /\ [][NewNext]_vars

-----------------------------------------------------------------------------
(* Properties of the harness specification *)

Range(f) == {f[i] : i \in DOMAIN f}

IsKey(k) == k # NoKey

RunOf(h) == harness[h].run_id

\* The keys publish_ruleset wrote for run_id so far.
KeysWrittenBy(run_id) == {w.key : w \in {x \in writes : x.run_id = run_id}}

\* C1 (as claimed): after a seed of two rulesets with no storage failure the
\* run-prefix listing returns exactly the published keys, and the teardown
\* that follows deletes all of them: its deleted count is the number of
\* published keys and no key written by the run's seed remains in storage.
C1_SeedThenTeardownRemovesAll ==
    /\ (last.op = "seed" /\ last.ran /\ last.clean /\ last.n = 2)
          => last.listing = Range(last.results)
    /\ (/\ last.op = "teardown" /\ last.ran /\ last.clean
        /\ prev.op = "seed" /\ prev.h = last.h /\ prev.ran /\ prev.clean
        /\ harness[last.h].seeded_artifacts # <<>>)
          => /\ last.deleted_count
                  = Cardinality(Range(harness[last.h].seeded_artifacts))
             /\ KeysWrittenBy(RunOf(last.h)) \cap DOMAIN storage = {}

\* C3: neither the prefix listing nor the deletions of an operation of run R'
\* ever contain a key that publish_ruleset wrote for a different run R.
C3_TeardownIsolation ==
    last.op \in {"seed", "teardown"} =>
        \A k \in last.listing \cup last.deleted :
            \A w \in writes : w.key = k => w.run_id = RunOf(last.h)

\* Witness of C3: a teardown deleted keys while an artifact published by the
\* other run is in the bucket.
C3_Witness ==
    /\ last.op = "teardown" /\ last.ran /\ last.deleted # {}
    /\ \E w \in writes : w.run_id # RunOf(last.h) /\ w.key \in DOMAIN storage

\* C4 (as claimed): every key written by publish_ruleset carries the run's
\* prefix, and no key is ever written by two different runs.
C4_KeysUniquePerRun ==
    /\ \A w \in writes : HasPrefix(w.key, RunPrefix(w.run_id))
    /\ \A w1 \in writes, w2 \in writes :
           w1.key = w2.key => w1.run_id = w2.run_id

\* C5: every teardown call returns success and raises nothing, also the
\* second of two calls in succession on the same harness and also when the
\* listing or a delete fails in storage; a call whose listing is empty
\* deletes nothing.
C5_TeardownIdempotent ==
    /\ last.op = "teardown" =>
          /\ last.ret /\ ~last.raised
          /\ last.listing = {} => (last.deleted = {} /\ last.deleted_count = 0)
    /\ (last.op = "teardown" /\ prev.op = "teardown" /\ prev.h = last.h)
          => prev.ret /\ ~prev.raised

\* Witness of C5: two teardowns in succession on one harness; the first
\* emptied the run's prefix, the second lists nothing.
C5_Witness ==
    /\ last.op = "teardown" /\ last.ran /\ last.clean /\ last.listing = {}
    /\ prev.op = "teardown" /\ prev.h = last.h /\ prev.ran
    /\ \E k \in ExternalKeys :
           HasPrefix(k, RunPrefix(RunOf(last.h))) /\ k \notin DOMAIN storage

\* C7: a seed call that runs (seeding enabled) attempts every ruleset it is
\* given whatever publishes fail, returns true and raises nothing whatever
\* the re-listing finds, and appends to seeded_artifacts exactly the keys
\* its successful publishes returned, in input order; every key it returned
\* is in the bucket.
C7_SeedBestEffort ==
    [][ (last'.op = "seed" /\ last'.ran /\ clock' = clock + 1) =>
          /\ last'.ret /\ ~last'.raised
          /\ Len(last'.results) = last'.n
          /\ harness'[last'.h].seeded_artifacts
                = harness[last'.h].seeded_artifacts
                    \o SelectSeq(last'.results, IsKey)
          /\ \A i \in DOMAIN last'.results :
                IsKey(last'.results[i]) => last'.results[i] \in DOMAIN storage'
      ]_vars

\* Witness of C7: a seed of two rulesets whose first publish failed, whose
\* second succeeded, and whose re-listing found nothing.
C7_Witness ==
    /\ last.op = "seed" /\ last.ran /\ last.n = 2
    /\ last.results[1] = NoKey /\ last.results[2] # NoKey
    /\ last.listing = {}
    /\ harness[last.h].seeded_artifacts = <<last.results[2]>>

-----------------------------------------------------------------------------
(* Properties of main() *)

EventIndexes(ev) == {i \in DOMAIN mlog : mlog[i].ev = ev}

-----------------------------------------------------------------------------
(* Properties of check_thresholds *)

Kinds == {"p95", "p99", "error_rate"}

LimitOf(th, kind) ==
    IF kind = "p95" THEN th.p95_max_ms
    ELSE IF kind = "p99" THEN th.p99_max_ms
    ELSE th.error_rate_max

\* The value check_thresholds compares with the limit of a kind.
Observed(stats, kind) ==
    IF kind = "error_rate" THEN Rat(stats.errors, stats.count)
    ELSE Rat(Percentile(stats.response_times, IF kind = "p95" THEN 95 ELSE 99), 1)

ViolationsOf(name, kind) ==
    {v \in Range(violations) : v.metric = name /\ v.threshold = kind}

\* C8 (as claimed): after a check, for every registered threshold whose
\* metric has at least one recorded sample and every kind whose limit L is
\* configured (any value, 0 included): a violation of that kind is reported
\* exactly when the observed value is strictly greater than L, and it then
\* carries the metric name, the kind, L and the observed value.
C8_ViolationIffAboveLimit ==
    fresh =>
      \A i \in DOMAIN thresholds :
        LET th == thresholds[i]
            name == th.metric_name
        IN  (HasStats(metrics, name) /\ metrics[name].response_times # <<>>) =>
              \A kind \in Kinds :
                LimitOf(th, kind).some =>
                  LET L == LimitOf(th, kind).val
                      obs == Observed(metrics[name], kind)
                  IN  ViolationsOf(name, kind)
                        = (IF RatGreater(obs, L)
                           THEN {Violation(name, kind, L, obs)} ELSE {})

\* C10 (as claimed): after a check, no violation of any kind is reported for
\* a threshold whose metric has no recorded latency samples or was never
\* observed.
C10_NoSamplesNoViolation ==
    fresh =>
      \A i \in DOMAIN thresholds :
        LET name == thresholds[i].metric_name
        IN  (~HasStats(metrics, name) \/ metrics[name].response_times = <<>>)
              => \A kind \in Kinds : ViolationsOf(name, kind) = {}

\* C10 (amended): after a check, no violation of any kind is reported for a
\* threshold whose metric was never observed or has count 0 (only
\* record_error calls); for a metric without latency samples no p95 or p99
\* violation is reported; but when increment calls made its count positive,
\* an error_rate violation is reported exactly when errors / count is
\* above a non-zero limit.
C10_NoCountNoViolation ==
    fresh =>
      \A i \in DOMAIN thresholds :
        LET th == thresholds[i]
            name == th.metric_name
        IN  /\ (~HasStats(metrics, name) \/ metrics[name].count = 0)
                  => \A kind \in Kinds : ViolationsOf(name, kind) = {}
            /\ (HasStats(metrics, name) /\ metrics[name].response_times = <<>>)
                  => /\ ViolationsOf(name, "p95") = {}
                     /\ ViolationsOf(name, "p99") = {}
                     /\ metrics[name].count > 0 =>
                          ( ViolationsOf(name, "error_rate") # {}
                            <=> /\ th.error_rate_max.some
                                /\ th.error_rate_max.val.num # 0
                                /\ RatGreater(Rat(metrics[name].errors,
                                                  metrics[name].count),
                                              th.error_rate_max.val) )

\* Witness of C10: a check ran on a threshold with an error-rate limit whose
\* metric was touched by record_error only.
C10_Witness ==
    /\ fresh
    /\ thresholds # <<>>
    /\ Truthy(thresholds[1].error_rate_max)
    /\ HasStats(metrics, thresholds[1].metric_name)
    /\ metrics[thresholds[1].metric_name].response_times = <<>>
    /\ metrics[thresholds[1].metric_name].errors > 0
    /\ metrics[thresholds[1].metric_name].count = 0
    /\ violations = <<>>

\* C9 (as claimed): with the latencies 1..100 recorded and p95_max_ms = 94,
\* the check reports a p95 violation whose actual value is 95.
C9_FixtureReports95 ==
    (/\ fresh
     /\ HasStats(metrics, "auth")
     /\ Range(metrics["auth"].response_times) = 1 .. 100
     /\ Len(metrics["auth"].response_times) = 100
     /\ thresholds[1].p95_max_ms = Some(Rat(94, 1)))
        => Violation("auth", "p95", Rat(94, 1), Rat(95, 1)) \in Range(violations)

\* C9 (amended): p95 and p99 are the elements at the 0-based indexes
\* floor(n * 0.95) and floor(n * 0.99) of the ascending-sorted latencies: on
\* the fixture, whose n latencies are the consecutive integers from lo, the
\* observed values are lo + floor(n * 0.95) and lo + floor(n * 0.99), and a
\* violation is reported exactly when that value is above the limit; for the
\* latencies 1..100 and p95_max_ms = 94 the reported actual value is 96.
C9_NearestRankIndex ==
    fresh =>
      \A i \in DOMAIN thresholds :
        LET th == thresholds[i]
            name == th.metric_name
        IN  HasStats(metrics, name) =>
              LET n == Len(metrics[name].response_times)
                  lo == metrics[name].min_time_ms
                  e95 == Rat(lo + (n * 95) \div 100, 1)
                  e99 == Rat(lo + (n * 99) \div 100, 1)
              IN  /\ ViolationsOf(name, "p95")
                        = (IF RatGreater(e95, th.p95_max_ms.val)
                           THEN {Violation(name, "p95", th.p95_max_ms.val, e95)}
                           ELSE {})
                  /\ ViolationsOf(name, "p99")
                        = (IF RatGreater(e99, th.p99_max_ms.val)
                           THEN {Violation(name, "p99", th.p99_max_ms.val, e99)}
                           ELSE {})
                  /\ (/\ Range(metrics[name].response_times) = 1 .. 100
                      /\ n = 100
                      /\ th.p95_max_ms = Some(Rat(94, 1)))
                        => Violation(name, "p95", Rat(94, 1), Rat(96, 1))
                              \in Range(violations)

\* Witness of C9: the check ran on the latencies 1..100 with p95_max_ms = 94
\* and reported a p95 violation.
C9_Witness ==
    /\ fresh
    /\ HasStats(metrics, "auth")
    /\ Range(metrics["auth"].response_times) = 1 .. 100
    /\ Len(metrics["auth"].response_times) = 100
    /\ thresholds[1].p95_max_ms = Some(Rat(94, 1))
    /\ ViolationsOf("auth", "p95") # {}

-----------------------------------------------------------------------------
(* Properties of the concurrent collector *)

Occurrences(seq, v) == Cardinality({i \in DOMAIN seq : seq[i] = v})

\* C6: in every state reached by interleaved record_time, increment and
\* record_error calls of several threads, every metric reflects exactly the
\* calls that have completed: its latency list holds each recorded value
\* once per completed record_time call, count is the number of those calls
\* plus the sum of the increment values, total_time_ms is the sum of the
\* latencies and errors is the number of failed record_time calls plus the
\* number of record_error calls.
C6_NoLostUpdate ==
    \A name \in Names :
        LET s == Lookup(metrics, name)
            d == done[name]
        IN  /\ Len(s.response_times) = d.n
            /\ \A v \in Latencies : Occurrences(s.response_times, v) = d.lat[v]
            /\ s.count = d.n + d.inc
            /\ s.total_time_ms = d.sum
            /\ s.errors = d.failed + d.err

\* Witness of C6: a thread holds the lock in the middle of a call while the
\* other thread waits with a call on the same metric, which already has a
\* recorded latency, an increment and an error.
C6_Witness ==
    \E t \in Threads, u \in Threads :
        /\ tpc[t] = "loaded" /\ tpc[u] = "waiting"
        /\ tlocal[t].name = tlocal[u].name
        /\ done[tlocal[t].name].n + done[tlocal[t].name].inc
              + done[tlocal[t].name].err >= 1

-----------------------------------------------------------------------------
(* Properties of the final report *)

\* C11: every report of a run with at least one request has the verdict
\* PASS exactly when total_failures / total_requests is strictly below 0.01
\* and FAIL otherwise; 1000 requests with 5 failures give PASS, with 15
\* failures FAIL and with exactly 10 failures FAIL.
C11_VerdictIffBelowOnePercent ==
    \A i \in DOMAIN run_summaries :
        LET s == run_summaries[i]
        IN  /\ s.total_requests >= 1 =>
                 /\ s.pass_fail \in {"PASS", "FAIL"}
                 /\ s.pass_fail = "PASS"
                       <=> 100 * s.total_failures < s.total_requests
            /\ s.total_requests = 1000 =>
                 /\ s.total_failures = 5 => s.pass_fail = "PASS"
                 /\ s.total_failures = 15 => s.pass_fail = "FAIL"
                 /\ s.total_failures = 10 => s.pass_fail = "FAIL"

\* Witness of C11: a report was generated for 1000 requests with exactly 10
\* failures.
C11_Witness ==
    \E i \in DOMAIN run_summaries :
        /\ run_summaries[i].total_requests = 1000
        /\ run_summaries[i].total_failures = 10
        /\ run_summaries[i].pass_fail = "FAIL"

\* C12 (as claimed): the report of a run that recorded zero requests has the
\* default verdict UNKNOWN, never PASS.
C12_ZeroRequestsUnknown ==
    \A i \in DOMAIN run_summaries :
        run_summaries[i].total_requests = 0
            => /\ run_summaries[i].pass_fail = "UNKNOWN"
               /\ run_summaries[i].pass_fail # "PASS"

-----------------------------------------------------------------------------
(* Properties of the exit code and of the order of main()'s phases *)

Logged(ev) == EventIndexes(ev) # {}

\* The load phase ended through the engine's shutdown.
LoadFinished ==
    \E i \in EventIndexes("load_end") : mlog[i].arg.type \in {"none", "SystemExit"}

\* The failure ratio of the run is above 0.01.
RatioBreached == RatGreater(fail_ratio(env_stats.total), Rat(1, 100))

PreflightFailed == \E i \in DOMAIN probe_results : probe_results[i] # "200"

\* C14: once a health probe of a selected service has met a non-200 status
\* or a connection failure, the process has exited with a non-zero code, the
\* failed probe is the last one made (the services before it, in selection
\* order, answered 200 and no later service was probed), no seed was run, no
\* object was published and the load engine was never started.
C14_PreflightFailureAborts ==
    PreflightFailed =>
        /\ mpc = "exited"
        /\ exit_status # 0 /\ exit_status # -1
        /\ \A i \in DOMAIN probe_results :
              probe_results[i] # "200" => i = Len(probe_results)
        /\ Len(mlog) = Len(probe_results)
        /\ \A i \in DOMAIN mlog :
              mlog[i] = Event("probe", _services_for_selection(margs.service)[i])
        /\ writes = {}
        /\ storage = [k \in ExternalKeys |-> ExternalObject]
        /\ harness[1].seeded_artifacts = <<>>

\* Witness of C14: with all three services selected, the second probe failed
\* to connect and the process has exited.
C14_Witness ==
    /\ mpc = "exited"
    /\ margs.service = "all"
    /\ Len(probe_results) = 2
    /\ probe_results[2] = "connect_error"
    /\ ~margs.skip_seed

\* The run was aborted after the preflight: an exception or a non-zero exit
\* of a later phase is in flight.
AbortedAfterPreflight == Logged("preflight_ok") /\ pending # NoExc

SeedFailed ==
    /\ Logged("seed")
    /\ margs.service \in {"rule-engine", "rule-mgmt", "all"}
    /\ harness[1].seeded_artifacts = <<>>

\* C16 (as claimed): when every upload of the seed phase fails, the run
\* aborts before the load phase: the load engine is never started and the
\* process exits with a non-zero code.
C16_SeedFailureAborts ==
    SeedFailed =>
        /\ ~Logged("load_start")
        /\ mpc = "exited" => exit_status # 0

\* The phase an event of main() belongs to.
PhaseRank(ev) ==
    IF ev \in {"probe", "preflight_ok"} THEN 0
    ELSE IF ev = "seed" THEN 1
    ELSE IF ev = "load_start" THEN 2
    ELSE IF ev = "load_end" THEN 3
    ELSE IF ev = "teardown" THEN 4
    ELSE 5

\* C17: the harness calls that reach the Artifact Publisher (seed, teardown)
\* and the load phase occur in the order seed, load start, load end,
\* teardown, metadata write, each at most once; the bucket and the harness
\* change only with a seed or teardown call, and no step taken while the
\* load phase is running touches the bucket or the harness.
C17_PublisherOutsideLoadPhase ==
    /\ [](/\ \A i \in DOMAIN mlog, j \in DOMAIN mlog :
                i < j => /\ PhaseRank(mlog[i].ev) <= PhaseRank(mlog[j].ev)
                         /\ PhaseRank(mlog[j].ev) > 0
                               => PhaseRank(mlog[i].ev) < PhaseRank(mlog[j].ev)
          /\ (writes # {} \/ storage # [k \in ExternalKeys |-> ExternalObject])
                => (Logged("seed") \/ Logged("teardown"))
          /\ mpc = "loading" =>
                (Logged("load_start") /\ ~Logged("load_end") /\ ~Logged("teardown")))
    /\ [][mpc = "loading" =>
            (storage' = storage /\ writes' = writes /\ harness' = harness)]_vars

\* Witness of C17: a run that seeded objects, ran the load phase, tore down
\* and wrote its metadata has exited.
C17_Witness ==
    /\ mpc = "exited"
    /\ writes # {}
    /\ Logged("seed") /\ Logged("load_start") /\ Logged("load_end")
    /\ Logged("teardown") /\ Logged("write_run_metadata")

-----------------------------------------------------------------------------
(* Properties of the published objects *)

\* C18: right after a seed, for every manifest the seed uploaded, the
\* object stored under the key named by the manifest's artifact_uri hashes
\* (SHA-256) to exactly the digest recorded in the manifest's checksum field.
C18_ChecksumRoundTrip ==
    (last.op = "seed" /\ last.ran) =>
        \A k \in last.written :
            storage[k].kind = "manifest" =>
                LET manifest == json_loads(storage[k].body)
                    uri == Get(manifest, "artifact_uri")
                IN  /\ KeyOfUri(uri) \in DOMAIN storage
                    /\ Get(manifest, "checksum")
                          = <<"sha256:", sha256(storage[KeyOfUri(uri)].body)>>

\* Witness of C18: a seed uploaded the artifact and the manifest of both of
\* its rulesets.
C18_Witness ==
    /\ last.op = "seed" /\ last.ran /\ last.n = 2
    /\ Cardinality(last.written) = 4
    /\ \E k \in last.written : storage[k].kind = "manifest"

-----------------------------------------------------------------------------
(* Properties of the percentile indexes *)

\* C19: for every sample count n >= 1 the indexes floor(n * 0.95) and
\* floor(n * 0.99) used by check_thresholds and by generate_final_report lie
\* within 0 .. n - 1: check_thresholds never raises IndexError, and the
\* percentiles of a report are elements of its list of response times, not
\* the value 0 its guard falls back to.
C19_PercentileIndexInRange ==
    /\ ~index_error
    /\ HasStats(metrics, "auth") =>
          LET n == Len(metrics["auth"].response_times)
          IN  n >= 1 => /\ PercentileIndex(n, 95) \in 0 .. n - 1
                        /\ PercentileIndex(n, 99) \in 0 .. n - 1
    /\ LET response_times == ResponseTimes(env_stats.entries)
           n == Len(response_times)
       IN  n >= 1 =>
             /\ PercentileIndex(n, 95) \in 0 .. n - 1
             /\ PercentileIndex(n, 99) \in 0 .. n - 1
             /\ \A i \in DOMAIN run_summaries :
                    /\ run_summaries[i].p95_response_time_ms
                          \in Range(response_times)
                    /\ run_summaries[i].p99_response_time_ms
                          \in Range(response_times)

\* Witness of C19: with a single sample recorded, check_thresholds returned
\* and the final report was generated.
C19_Witness ==
    /\ fresh
    /\ HasStats(metrics, "auth")
    /\ Len(metrics["auth"].response_times) = 1
    /\ env_stats.total.num_requests = 1
    /\ run_summaries # <<>>

-----------------------------------------------------------------------------
(* Properties of the teardown guard *)

\* C20: a call teardown(force) on a harness performs the cleanup exactly
\* when teardown is enabled or force is true: it then sets end_time to the
\* current time and lists the run's prefix, and when no storage call fails it
\* deletes every key under that prefix; when teardown is disabled and force
\* is false the call returns True, lists and deletes nothing, and leaves the
\* bucket and every field of every harness as they were.
C20_TeardownExactlyWhenEnabledOrForced ==
    [][\A h \in Harnesses :
          (last'.op = "teardown" /\ last'.h = h) =>
              LET enabled == harness[h].enable_teardown \/ last'.force
                  prefix == RunPrefix(harness[h].run_id)
              IN  /\ last'.ran <=> enabled
                  /\ enabled =>
                        /\ harness'[h].end_time = clock
                        /\ last'.clean =>
                              /\ last'.listing = ListObjects(storage, prefix)
                              /\ last'.deleted = ListObjects(storage, prefix)
                              /\ ListObjects(storage', prefix) = {}
                  /\ ~enabled =>
                        /\ last'.ret
                        /\ last'.listing = {}
                        /\ last'.deleted = {}
                        /\ storage' = storage
                        /\ harness' = harness]_vars

\* Witness of C20: on a harness with teardown disabled, a forced teardown ran
\* and the unforced teardown that followed did nothing.
C20_Witness ==
    /\ last.op = "teardown"
    /\ ~harness[last.h].enable_teardown
    /\ ~last.force /\ ~last.ran /\ last.ret
    /\ prev.op = "teardown" /\ prev.h = last.h /\ prev.ran
    /\ harness[last.h].end_time # NoTime

-----------------------------------------------------------------------------
(* Properties of the seed guard *)

\* C21: a call of seed() on a harness whose seeding is disabled returns True,
\* publishes and lists nothing, and leaves the bucket and every field of
\* every harness (start_time and seeded_artifacts included) as they were,
\* whatever rulesets are passed.
C21_DisabledSeedIsNoOp ==
    [][\A h \in Harnesses :
          (last'.op = "seed" /\ last'.h = h /\ ~harness[h].enable_seed) =>
              /\ last'.ret
              /\ ~last'.ran
              /\ last'.written = {}
              /\ last'.listing = {}
              /\ writes' = writes
              /\ storage' = storage
              /\ harness' = harness]_vars

\* Witness of C21: seed() was called with two rulesets on a harness whose
\* seeding is disabled.
C21_Witness ==
    /\ last.op = "seed"
    /\ ~harness[last.h].enable_seed
    /\ last.n = 2
    /\ last.ret /\ ~last.ran
    /\ harness[last.h].start_time = NoTime
    /\ harness[last.h].seeded_artifacts = <<>>

-----------------------------------------------------------------------------
(* Properties of the run-metadata record *)

BaseKeys ==
    {"run_id", "start_time", "end_time", "bucket", "seeded_artifacts",
     "seed_enabled", "teardown_enabled"}

\* C22: write_run_metadata can be called any number of times in any harness
\* state; each call replaces the one record keyed by the run id of the
\* harness and touches no other record and no harness field; the record
\* holds the base fields, start_time and end_time being null when never
\* set, plus exactly the extension fields of that call, so that after two
\* calls with different extension fields nothing of the first remains.
C22_MetadataHoldsLatestFields ==
    [][\A h \in Harnesses :
          (last'.op = "write_run_metadata" /\ last'.h = h) =>
              LET self == harness[h]
                  record == files'[self.run_id]
                  extension == last'.metadata
              IN  /\ DOMAIN files' = (DOMAIN files) \cup {self.run_id}
                  /\ \A f \in DOMAIN files : f # self.run_id => files'[f] = files[f]
                  /\ DOMAIN record = BaseKeys \cup DOMAIN extension
                  /\ \A k \in DOMAIN extension : record[k] = extension[k]
                  /\ record.run_id = self.run_id
                  /\ record.start_time = self.start_time
                  /\ record.end_time = self.end_time
                  /\ record.seeded_artifacts = self.seeded_artifacts
                  /\ record.seed_enabled = self.enable_seed
                  /\ record.teardown_enabled = self.enable_teardown
                  /\ harness' = harness
                  /\ storage' = storage]_vars

\* Witness of C22: on a harness that never set start_time or end_time the
\* record was written twice, with extension fields of different names.
C22_Witness ==
    /\ last.op = "write_run_metadata"
    /\ prev.op = "write_run_metadata" /\ prev.h = last.h
    /\ DOMAIN prev.metadata = {"service"}
    /\ DOMAIN last.metadata = {"scenario"}
    /\ harness[last.h].start_time = NoTime
    /\ harness[last.h].end_time = NoTime
    /\ files[harness[last.h].run_id].start_time = NoTime
    /\ DOMAIN files[harness[last.h].run_id] = BaseKeys \cup {"scenario"}

-----------------------------------------------------------------------------
(* Properties of the run summary's key *)

\* C23 (as claimed): the run summary written at the end of the load phase
\* carries the run id of the harness of that run, in its run_id field and in
\* its file name, the same id as the run-metadata record of the run.
C23_SummaryKeyedByRunId ==
    \A i \in DOMAIN run_summaries :
        /\ run_summaries[i].run_id = harness[1].run_id
        /\ SummaryFile(run_summaries[i]) = "run-summary-" \o harness[1].run_id
        /\ harness[1].run_id \in DOMAIN files =>
              run_summaries[i].run_id = files[harness[1].run_id].run_id

-----------------------------------------------------------------------------
(* Properties of check_thresholds as a reader *)

\* C24: a check_thresholds call leaves the metric table as it was: no
\* counter and no latency list changes, and a threshold on a metric name that
\* was never observed creates no entry for it, so that get_stats of the name
\* still returns nothing.
C24_CheckIsReadOnly ==
    [][(fresh' \/ index_error') =>
          /\ metrics' = metrics
          /\ \A name \in Names : HasStats(metrics', name) <=> HasStats(metrics, name)]_vars

\* Witness of C24: check_thresholds returned with a threshold registered on a
\* metric that was never observed, while another metric has samples.
C24_Witness ==
    /\ fresh
    /\ thresholds # <<>>
    /\ ~HasStats(metrics, thresholds[1].metric_name)
    /\ HasStats(metrics, "auth")
    /\ metrics["auth"].response_times # <<>>

-----------------------------------------------------------------------------
(* Properties of the run identifier *)

Generated(i) == constructed[i].run_id = ""

-----------------------------------------------------------------------------
(* Properties of publish_ruleset's two uploads *)

\* C26: for every ruleset a seed publishes, publish_ruleset returns the
\* artifact key exactly when the artifact upload succeeded, also when the
\* manifest upload then failed, and None otherwise; the manifest is written
\* only after the artifact was, and a manifest written by the publish names
\* an artifact that the same publish stored.
C26_ManifestOnlyAfterArtifact ==
    (last.op = "seed" /\ last.ran) =>
        LET rulesets == CHOOSE r \in SeedInputs : Len(r) = last.n
        IN  \A i \in 1 .. last.n :
                LET rs == rulesets[i]
                IN  /\ last.results[i] =
                          (IF last.outcome[i] = "artifact_fails"
                           THEN NoKey ELSE artifact_key(rs))
                    /\ artifact_key(rs) \in last.written
                          <=> last.outcome[i] # "artifact_fails"
                    /\ manifest_key(rs) \in last.written
                          <=> last.outcome[i] = "ok"
                    /\ manifest_key(rs) \in last.written =>
                          /\ artifact_key(rs) \in last.written
                          /\ KeyOfUri(Get(json_loads(storage[manifest_key(rs)].body),
                                          "artifact_uri")) = artifact_key(rs)
                          /\ storage[artifact_key(rs)].run_id = RunOf(last.h)

\* Witness of C26: in one seed the artifact upload of the first ruleset
\* failed and the manifest upload of the second failed after its artifact
\* was stored.
C26_Witness ==
    /\ last.op = "seed" /\ last.ran /\ last.n = 2
    /\ last.outcome = <<"artifact_fails", "manifest_fails">>
    /\ last.results[1] = NoKey
    /\ last.results[2] # NoKey
    /\ Cardinality(last.written) = 1

-----------------------------------------------------------------------------
(* Properties of _run_locust's return value *)

\* C27 (as claimed): whenever the load engine ends by returning or by
\* SystemExit, whatever its code, _run_locust returns the exit code the
\* engine's process would end with, and main() has it in
\* run_artifacts["exit_code"] for the run's metadata.
C27_RunLocustReturnsExitCode ==
    \A i \in EventIndexes("load_end") :
        mlog[i].arg.type \in {"none", "SystemExit"} =>
            run_artifacts.exit_code = ProcessExitCode(mlog[i].arg)

-----------------------------------------------------------------------------
(* Properties of the user classes *)

EnabledClasses ==
    {UserClasses[i] : i \in {k \in DOMAIN UserClasses :
                                 FlagEnabled(locust_env.environ, FlagOf(UserClasses[k]))}}

\* C28 (as claimed): after on_locust_init, for every setting of the four
\* TEST_* flags, environment.user_classes holds exactly the classes whose
\* flag is enabled, and no user of a disabled class is spawned.
C28_OnlyEnabledClasses ==
    locust_env.initialized =>
        /\ Range(locust_env.user_classes) = EnabledClasses
        /\ locust_env.spawned \subseteq EnabledClasses

\* C30: after any sequence of record_time, increment, record_error and reset
\* calls, every metric has errors <= count and no more recorded latencies
\* than count, so that errors / count lies between 0 and 1.
C30_ErrorsWithinCount ==
    \A name \in DOMAIN metrics :
        /\ metrics[name].errors <= metrics[name].count
        /\ Len(metrics[name].response_times) <= metrics[name].count

\* The error rate a snapshot gives: errors / count, 0 when count is 0.
RateOf(snapshot) ==
    IF snapshot.count > 0 THEN Rat(snapshot.errors, snapshot.count) ELSE Rat(0, 1)

\* C29: a check_thresholds call running concurrently with record_time,
\* increment, record_error and reset calls reports, for a metric, percentiles
\* and an error rate that all come from the latency list, errors and count
\* the metric held at one single instant.
C29_ConsistentSnapshot ==
    checker.pc = "returned" =>
        \E s \in checker.held :
            /\ Percentile(s.response_times, 95) = Percentile(checker.times, 95)
            /\ Percentile(s.response_times, 99) = Percentile(checker.times, 99)
            /\ RateOf(s).num * checker.count = checker.errors * RateOf(s).den

====
